---- MODULE Spec2Model ----
(***************************************************************************)
(* Model of the scoring tools of the repository:                           *)
(*   - InnovationScorer (six weighted dimensions, innovation level),       *)
(*   - SocialValueScorer (basic items + bonus items),                      *)
(*   - the heuristic analyzers that produce the dimension scores,          *)
(*   - BusinessResearcher.analyze_bp_pipeline and its thread pools,        *)
(*   - the external request wrappers (GitHub GET, Serper search, LLM).     *)
(*                                                                         *)
(* Python floats are modelled as exact rationals <<numerator, denominator>>*)
(* kept in lowest terms with a positive denominator.                       *)
(***************************************************************************)
EXTENDS Integers, Sequences, FiniteSets, TLC

VARIABLES
    \* ---- InnovationScorer.analyze ----
    iWeightsArg,   \* the `weights` argument of analyze (None or a dict)
    iScores,       \* score of each of the six dimensions (analyzer results)
    iReport,       \* the InnovationReport returned, or None
    \* ---- SocialValueScorer.analyze ----
    sText,         \* description + README, as the set of vocabulary words in it
    sLicense,      \* repo_info.license_name is non-empty
    sWeightsArg,   \* the `weights` argument of analyze
    sReport,       \* the SocialValueReport returned, or None
    \* ---- one analyzer call ----
    aResult,       \* analyzer, sum before the clamp and returned score, or None
    \* ---- BusinessResearcher.analyze_bp_pipeline ----
    pMain,         \* the submitting thread: position, images, keywords, pool
    pFut,          \* the futures of the open pool: state and returned value
    pCollected,    \* the futures whose result the submitting thread has taken
    pContainer,    \* the result container of the open pool (a dict)
    pLog,          \* accesses to variables by the threads
    pRet,          \* the value returned by analyze_bp_pipeline, or None
    pExc,          \* an exception is travelling up to the except clause
    \* ---- one call of an external request wrapper ----
    hCall,         \* function, retries, responses so far, sleeps, returned value
    \* ---- one call of _normalize_weights ----
    nCall,         \* scorer, supplied weights and returned weights, or None
    \* ---- GitHubFetcher.fetch ----
    fFetch,        \* position, requests issued, answers, cache, or None
    \* ---- one call of a Gradio callback (analyze_repo, reset_weights) ----
    uCall,         \* app, callback, arguments and outcome, or None
    \* ---- one call of generate_markdown_report ----
    mCall          \* outcome of the LLM optimiser and the report returned, or None

innovVars  == <<iWeightsArg, iScores, iReport>>
socialVars == <<sText, sLicense, sWeightsArg, sReport>>
analyzerVars == <<aResult>>
pipelineVars == <<pMain, pFut, pCollected, pContainer, pLog, pRet, pExc>>
httpVars == <<hCall>>
appVars == <<nCall, fFetch, uCall, mCall>>
vars == <<iWeightsArg, iScores, iReport, sText, sLicense, sWeightsArg, sReport, aResult,
          pMain, pFut, pCollected, pContainer, pLog, pRet, pExc, hCall,
          nCall, fFetch, uCall, mCall>>

\* Python's None (a record, so that it compares with dicts and reports)
None == [none |-> TRUE]

\* The pipeline before analyze_bp_pipeline is called, and a request wrapper
\* before it is called.
PipelineIdle ==
    [ pc |-> "idle", images |-> 0, keywords |-> 0, pool |-> "none", step |-> 0 ]

HttpIdle ==
    [ pc |-> "idle", function |-> "none", retries |-> 0, responses |-> <<>>,
      sleeps |-> <<>>, ret |-> "pending" ]

(***************************************************************************)
(* Exact rational arithmetic standing for Python float arithmetic.         *)
(***************************************************************************)
Abs(n) == IF n < 0 THEN -n ELSE n

RECURSIVE Gcd(_, _)
Gcd(a, b) == IF b = 0 THEN a ELSE Gcd(b, a % b)

Rat(n, d) ==
    LET g == Gcd(Abs(n), Abs(d))
        s == IF d < 0 THEN -1 ELSE 1
    IN  <<(s * n) \div g, (s * d) \div g>>

Num(q) == Rat(q, 1)
RAdd(a, b) == Rat(a[1] * b[2] + b[1] * a[2], a[2] * b[2])
RMul(a, b) == Rat(a[1] * b[1], a[2] * b[2])
RDiv(a, b) == Rat(a[1] * b[2], a[2] * b[1])
RLe(a, b) == a[1] * b[2] <= b[1] * a[2]
RLt(a, b) == a[1] * b[2] < b[1] * a[2]
RMin(a, b) == IF RLe(a, b) THEN a ELSE b
RMax(a, b) == IF RLe(a, b) THEN b ELSE a

RECURSIVE RSumSeq(_)
RSumSeq(s) == IF s = <<>> THEN Num(0) ELSE RAdd(Head(s), RSumSeq(Tail(s)))

RECURSIVE SumSeq(_)
SumSeq(s) == IF s = <<>> THEN 0 ELSE Head(s) + SumSeq(Tail(s))

(***************************************************************************)
(* InnovationScorer                                                        *)
(***************************************************************************)
\* The six dimensions in the order analyze builds dimension_scores.
DimensionOrder ==
    << "tech_implementation", "architecture_design", "engineering_sustainability",
       "problem_value", "scenario_innovation", "market_fit" >>

DIMENSION_NAMES == { DimensionOrder[i] : i \in 1..Len(DimensionOrder) }

\* category="tech" / category="scenario" of each DimensionScore
Category(d) ==
    IF d \in {"tech_implementation", "architecture_design", "engineering_sustainability"}
    THEN "tech" ELSE "scenario"

DEFAULT_WEIGHTS ==
    [ d \in DIMENSION_NAMES |->
        CASE d = "tech_implementation"        -> 13
          [] d = "architecture_design"        -> 13
          [] d = "engineering_sustainability" -> 14
          [] d = "problem_value"              -> 18
          [] d = "scenario_innovation"        -> 24
          [] d = "market_fit"                 -> 18 ]

\* INNOVATION_LEVELS, in dict (insertion) order: <<low, high, level>>.  The level
\* names are written in ASCII: L5_breakthrough is the 90-100 level, L4_significant
\* the 75-89 level, L3_medium the 60-74 level, L2_incremental the 40-59 level and
\* L1_routine the 0-39 level (the level _get_level also falls back to).
INNOVATION_LEVELS ==
    << <<90, 100, "L5_breakthrough">>,
       <<75, 89,  "L4_significant">>,
       <<60, 74,  "L3_medium">>,
       <<40, 59,  "L2_incremental">>,
       <<0,  39,  "L1_routine">> >>

\* _get_level: the first band with low <= score <= high, else the fallback.
RECURSIVE LevelFrom(_, _)
LevelFrom(bands, score) ==
    IF bands = <<>> THEN "L1_routine"
    ELSE IF RLe(Num(Head(bands)[1]), score) /\ RLe(score, Num(Head(bands)[2]))
         THEN Head(bands)[3]
         ELSE LevelFrom(Tail(bands), score)

GetLevel(score) == LevelFrom(INNOVATION_LEVELS, score)

\* sum(weights.values()) for a dict of integers
RECURSIVE SumValues(_)
SumValues(w) ==
    IF DOMAIN w = {} THEN 0
    ELSE LET k == CHOOSE x \in DOMAIN w : TRUE
         IN  w[k] + SumValues([y \in DOMAIN w \ {k} |-> w[y]])

\* _normalize_weights: the defaults when the values sum to 0, else each value
\* scaled by 100 / total; the result has the keys of its argument.
NormalizeWeights(weights) ==
    LET total == SumValues(weights)
    IN  IF total = 0
        THEN [k \in DOMAIN DEFAULT_WEIGHTS |-> Num(DEFAULT_WEIGHTS[k])]
        ELSE [k \in DOMAIN weights |-> Rat(weights[k] * 100, total)]

\* weights = weights or DEFAULT_WEIGHTS.copy(): None and {} are falsy.
WeightsOrDefault(arg) ==
    IF arg = None \/ DOMAIN arg = {} THEN DEFAULT_WEIGHTS ELSE arg

\* weights.get(d, <literal default>) in each DimensionScore of analyze
WeightGet(weights, d) ==
    IF d \in DOMAIN weights THEN weights[d] ELSE Num(DEFAULT_WEIGHTS[d])

\* The DimensionScore of dimension d.
DimensionScoreOf(weights, scores, d) ==
    [ name |-> d,
      score |-> scores[d],
      weight |-> WeightGet(weights, d),
      weighted_score |-> RDiv(RMul(Num(scores[d]), WeightGet(weights, d)), Num(100)),
      category |-> Category(d) ]

\* sum(d.weighted_score for d in dimension_scores if <cats>)
SumWeighted(dims, cats) ==
    RSumSeq([ i \in 1..Len(dims) |->
                IF dims[i].category \in cats THEN dims[i].weighted_score ELSE Num(0) ])

\* InnovationScorer.analyze: the report for the analyzer scores `scores`.
InnovationReportOf(arg, scores) ==
    LET weights == NormalizeWeights(WeightsOrDefault(arg))
        dims == [ i \in 1..Len(DimensionOrder) |->
                    DimensionScoreOf(weights, scores, DimensionOrder[i]) ]
        total == SumWeighted(dims, {"tech", "scenario"})
    IN  [ total_score |-> total,
          level |-> GetLevel(total),
          tech_innovation_score |-> SumWeighted(dims, {"tech"}),
          scenario_innovation_score |-> SumWeighted(dims, {"scenario"}),
          dimensions |-> dims ]

\* Slider range of the weight sliders (minimum=0, maximum=100).
SliderMax == 100

\* Weight values the caller supplies for a dimension.
WeightValues == {0, 1, SliderMax}

\* Dimension scores tried: values the analyzers return (multiples of 5 in 0..100).
ScoreSamples == {40, 90}

\* The weights arguments tried: None, or a dict naming all or some dimensions.
WeightArgs ==
    {None} \cup UNION { [D -> WeightValues] : D \in SUBSET DIMENSION_NAMES }

InnovInit ==
    /\ iWeightsArg \in WeightArgs
    /\ iScores = None
    /\ iReport = None
    /\ sText = {} /\ sLicense = FALSE /\ sWeightsArg = None /\ sReport = None
    /\ aResult = None
    /\ pMain = PipelineIdle /\ pFut = <<>> /\ pCollected = {} /\ pContainer = <<>>
    /\ pLog = {} /\ pRet = None /\ pExc = FALSE
    /\ hCall = HttpIdle
    /\ nCall = None /\ fFetch = None /\ uCall = None /\ mCall = None

\* report = scorer.analyze(url, weights=weights): the analyzers score the
\* fetched repository and the report is assembled from their scores.
Analyze ==
    /\ iReport = None
    /\ \E scores \in [DIMENSION_NAMES -> ScoreSamples] :
         /\ iScores' = scores
         /\ iReport' = InnovationReportOf(iWeightsArg, scores)
    /\ UNCHANGED <<iWeightsArg, socialVars, analyzerVars, pipelineVars, httpVars, appVars>>

InnovNext == Analyze

InnovSpec == InnovInit /\ [][InnovNext]_vars

(***************************************************************************)
(* Claims about InnovationScorer.analyze                                   *)
(***************************************************************************)
\* The band of the documented level table that holds `score`:
\* 90-100, 75-89, 60-74, 40-59, and "below 40" for the lowest level.
DocumentedLevel(score) ==
    IF RLe(Num(90), score) THEN "L5_breakthrough"
    ELSE IF RLe(Num(75), score) THEN "L4_significant"
    ELSE IF RLe(Num(60), score) THEN "L3_medium"
    ELSE IF RLe(Num(40), score) THEN "L2_incremental"
    ELSE "L1_routine"

\* C2: the total_score of every report analyze returns lies within [0,100],
\* whatever the six dimension scores and whatever non-negative weights
\* mapping the caller passes, naming all six dimensions or only some.
C2_TotalScoreWithin0And100 ==
    iReport # None =>
        /\ RLe(Num(0), iReport.total_score)
        /\ RLe(iReport.total_score, Num(100))

\* C6: every total_score in [0,100], integral or fractional, gets the level
\* of the documented band (90-100, 75-89, 60-74, 40-59, below 40); the
\* lowest level is given only to scores below 40.
C6_LevelIsDocumentedBand ==
    (iReport # None /\ RLe(Num(0), iReport.total_score)
                    /\ RLe(iReport.total_score, Num(100))) =>
        /\ iReport.level = DocumentedLevel(iReport.total_score)
        /\ (iReport.level = "L1_routine" => RLt(iReport.total_score, Num(40)))

\* C10: in every report tech_innovation_score is at most 40 and
\* scenario_innovation_score at most 60, whatever weights the caller passes.
C10_BlockScoresWithinFullMarks ==
    iReport # None =>
        /\ RLe(iReport.tech_innovation_score, Num(40))
        /\ RLe(iReport.scenario_innovation_score, Num(60))

(***************************************************************************)
(* SocialValueScorer                                                       *)
(*                                                                         *)
(* A text (description + README) is the set of words and phrases in it.    *)
(* Keywords written in Chinese in the source carry an ASCII name here:     *)
(* zh_ followed by the pinyin of the keyword.                              *)
(***************************************************************************)
\* Words and phrases a text is made of.
Vocabulary ==
    { "surveillance", "bias", "harm", "deception", "Privacy", "fairness",
      "inclusion", "vulnerable", "solution", "sustainable", "accessibility",
      "charity", "ecosystem", "zh_shehuiwenti" }

\* Largest number of vocabulary words in one text.
MaxWords == 4

Texts == { t \in SUBSET Vocabulary : Cardinality(t) <= MaxWords }

\* str.lower() on a word of the vocabulary
Lower(w) ==
    CASE w = "Privacy" -> "privacy"
      [] w = "API"     -> "api"
      [] OTHER         -> w

\* The keywords that occur in (are substrings of) a lower-case word.
Occurs(w) ==
    CASE w = "ecosystem"      -> {"ecosystem", "system"}
      [] w = "zh_shehuiwenti" -> {"zh_shehuiwenti", "zh_wenti"}
      [] w = "children"       -> {"children", "child"}
      [] w = "healthcare"     -> {"healthcare", "health", "care"}
      [] OTHER                -> {w}

\* kw in full_text.lower()
Contains(text, kw) == \E w \in text : kw \in Occurs(Lower(w))

\* any(kw in full_text.lower() for kw in keywords)
AnyIn(text, keywords) == \E kw \in keywords : Contains(text, kw)

SOCIAL_VALUE_KEYWORDS ==
    [ social_impact |->
        { "zh_yiliao", "zh_jiankang", "zh_jiaoyu", "zh_yanglao", "zh_canzhang",
          "zh_wuzhangai", "zh_ruoshiqunti", "zh_shehuiwenti", "community",
          "health", "education", "elderly", "disability", "vulnerable" },
      environmental |->
        { "zh_huanbao", "zh_kechixu", "zh_lvse", "zh_qihou", "zh_ditan",
          "zh_tanzhonghe", "environment", "sustainable", "green", "climate" },
      charity |->
        { "zh_gongyi", "zh_cishan", "zh_feiyingli", "zh_puhui", "accessibility",
          "charity", "nonprofit", "public good" },
      vision |->
        { "zh_changqi", "zh_yuanjing", "zh_biange", "zh_weilai", "sustainable",
          "vision", "future", "transformation" } ]

ETHICS_RISK_KEYWORDS ==
    [ surveillance   |-> { "zh_jiankong", "surveillance", "monitoring", "tracking" },
      discrimination |-> { "zh_qishi", "zh_pianjian", "bias", "discrimination" },
      harm           |-> { "zh_weihai", "zh_shanghai", "harm", "danger" },
      deception      |-> { "zh_qipian", "zh_caozong", "deception", "manipulation" },
      privacy        |-> { "zh_yinsi", "zh_shujushouji", "data collection", "privacy" } ]

\* _detect_keywords: the categories with at least one keyword in the text
DetectKeywords(text, keywords_dict) ==
    { c \in DOMAIN keywords_dict : AnyIn(text, keywords_dict[c]) }

\* Variant: the sum of the point values, returned as it is.
Unclamped(score) == score

\* score = max(0, min(100, score))
Clamp(score) == IF score < 0 THEN 0 ELSE IF score > 100 THEN 100 ELSE score

\* _evaluate_ethics_redline, before the clamp: 80 less the risk deductions
EthicsRaw(text) ==
    LET risk == DetectKeywords(text, ETHICS_RISK_KEYWORDS)
    IN  80 - (IF "surveillance" \in risk THEN 30 ELSE 0)
           - (IF "discrimination" \in risk THEN 25 ELSE 0)
           - (IF "harm" \in risk THEN 40 ELSE 0)
           - (IF "deception" \in risk THEN 20 ELSE 0)

\* risk_level: each check overwrites the level set by the checks before it
EthicsRiskLevel(text) ==
    LET risk == DetectKeywords(text, ETHICS_RISK_KEYWORDS)
    IN  IF "deception" \in risk THEN "needs_attention"
        ELSE IF "harm" \in risk THEN "dangerous"
        ELSE IF "discrimination" \in risk \/ "surveillance" \in risk
             THEN "needs_attention"
        ELSE "safe"

EvaluateEthicsRedline(text) ==
    [ score |-> Clamp(EthicsRaw(text)), risk_level |-> EthicsRiskLevel(text) ]

PrivacyRaw(text, license) ==
    70 + (IF AnyIn(text, { "zh_yinsi", "zh_shujubaohu", "privacy",
                           "data protection", "consent", "zh_tongyi" })
          THEN 15 ELSE 0)
       + (IF license THEN 10 ELSE 0)

EvaluatePrivacyProtection(text, license) ==
    LET score == Clamp(PrivacyRaw(text, license))
    IN  [ score |-> score,
          compliance_level |-> IF score >= 90 THEN "compliant"
                               ELSE IF score < 60 THEN "non_compliant"
                               ELSE "basically_compliant" ]

FairnessFound(text) ==
    AnyIn(text, { "zh_gongping", "bias", "zh_qishi", "fairness", "equity", "inclusion" })

FairnessRaw(text) ==
    60 + (IF FairnessFound(text) THEN 25 ELSE 0)
       + (IF AnyIn(text, { "zh_duoyangxing", "inclusion", "zh_baorongxing", "diversity" })
          THEN 10 ELSE 0)

EvaluateAlgorithmFairness(text) ==
    LET score == Clamp(FairnessRaw(text))
    IN  [ score |-> score,
          awareness_level |-> IF score < 50 THEN "lacking"
                              ELSE IF FairnessFound(text) THEN "highly_aware"
                              ELSE "basic_awareness" ]

SocialImpactRaw(text) ==
    50 + (IF "social_impact" \in DetectKeywords(text, SOCIAL_VALUE_KEYWORDS) THEN 25 ELSE 0)
       + (IF AnyIn(text, { "zh_laoren", "zh_ertong", "zh_canzhang", "zh_ruoshiqunti",
                           "elderly", "children", "disabled", "vulnerable" })
          THEN 15 ELSE 0)
       + (IF AnyIn(text, { "zh_jiejue", "zh_wenti", "solution", "solve", "address" })
          THEN 10 ELSE 0)

EnvironmentalRaw(text) ==
    40 + (IF "environmental" \in DetectKeywords(text, SOCIAL_VALUE_KEYWORDS) THEN 35 ELSE 0)
       + (IF AnyIn(text, { "zh_kechixu", "sustainable", "zh_lvse", "green", "zh_ditan",
                           "low carbon" })
          THEN 15 ELSE 0)
       + (IF AnyIn(text, { "zh_jieneng", "zh_jianpai", "zh_ziyuanjieyue", "energy saving",
                           "resource efficiency" })
          THEN 10 ELSE 0)

CharityRaw(text) ==
    45 + (IF "charity" \in DetectKeywords(text, SOCIAL_VALUE_KEYWORDS) THEN 30 ELSE 0)
       + (IF AnyIn(text, { "zh_puhui", "zh_wuzhangai", "accessibility", "inclusive",
                           "affordable" })
          THEN 15 ELSE 0)
       + (IF AnyIn(text, { "zh_feiyingli", "nonprofit", "zh_cishan", "charity", "zh_gongyi",
                           "public good" })
          THEN 10 ELSE 0)

VisionRaw(text) ==
    50 + (IF "vision" \in DetectKeywords(text, SOCIAL_VALUE_KEYWORDS) THEN 20 ELSE 0)
       + (IF AnyIn(text, { "zh_biange", "zh_chuangxin", "transformation", "innovation",
                           "change" })
          THEN 15 ELSE 0)
       + (IF AnyIn(text, { "zh_xitong", "zh_shengtai", "system", "ecosystem", "holistic" })
          THEN 10 ELSE 0)

EvaluateSocialImpact(text) == [ score |-> Clamp(SocialImpactRaw(text)) ]
EvaluateEnvironmentalFriendliness(text) == [ score |-> Clamp(EnvironmentalRaw(text)) ]
EvaluateCharityOrientation(text) == [ score |-> Clamp(CharityRaw(text)) ]
EvaluateLongTermVision(text) == [ score |-> Clamp(VisionRaw(text)) ]

\* The seven dimensions in the order analyze builds dimension_scores.
SocialDimensionOrder ==
    << "ethics_redline", "privacy_protection", "algorithm_fairness", "social_impact",
       "environmental_friendliness", "charity_orientation", "long_term_vision" >>

SOCIAL_DIMENSION_NAMES == { SocialDimensionOrder[i] : i \in 1..Len(SocialDimensionOrder) }

\* The four bonus dimensions in the insertion order of bonus_evals.
BonusOrder ==
    << "social_impact", "environmental_friendliness", "charity_orientation",
       "long_term_vision" >>

\* DEFAULT_WEIGHTS of the social-value config (the 20/80 scheme).
SOCIAL_DEFAULT_WEIGHTS ==
    [ d \in { "basic_ethics", "social_impact", "environmental_friendliness",
              "charity_orientation", "long_term_vision" } |->
        IF d = "basic_ethics" THEN 20 ELSE 80 ]

\* SOCIAL_VALUE_LEVELS in dict order, names in ASCII: S5_outstanding is the 90-100
\* level, S4_significant 75-89, S3_good 60-74, S2_average 40-59, S1_limited 0-39.
SOCIAL_VALUE_LEVELS ==
    << <<90, 100, "S5_outstanding">>,
       <<75, 89,  "S4_significant">>,
       <<60, 74,  "S3_good">>,
       <<40, 59,  "S2_average">>,
       <<0,  39,  "S1_limited">> >>

\* SocialValueScorer._get_level
RECURSIVE SocialLevelFrom(_, _)
SocialLevelFrom(bands, score) ==
    IF bands = <<>> THEN "S1_limited"
    ELSE IF RLe(Num(Head(bands)[1]), score) /\ RLe(score, Num(Head(bands)[2]))
         THEN Head(bands)[3]
         ELSE SocialLevelFrom(Tail(bands), score)

SocialGetLevel(score) == SocialLevelFrom(SOCIAL_VALUE_LEVELS, score)

\* SocialValueScorer._normalize_weights
SocialNormalizeWeights(weights) ==
    LET total == SumValues(weights)
    IN  IF total = 0
        THEN [k \in DOMAIN SOCIAL_DEFAULT_WEIGHTS |-> Num(SOCIAL_DEFAULT_WEIGHTS[k])]
        ELSE [k \in DOMAIN weights |-> Rat(weights[k] * 100, total)]

\* basic_score: 20 less the deductions, floored at 0
BasicScore(ethics, privacy, fairness) ==
    LET afterEthics ==
            IF ethics.risk_level = "dangerous" THEN 0
            ELSE IF ethics.risk_level = "needs_attention" THEN 20 - 10
            ELSE 20
        afterPrivacy ==
            IF privacy.compliance_level = "non_compliant" THEN afterEthics - 10
            ELSE IF privacy.compliance_level = "basically_compliant" THEN afterEthics - 5
            ELSE afterEthics
        afterFairness ==
            IF fairness.awareness_level = "lacking" THEN afterPrivacy - 10
            ELSE IF fairness.awareness_level = "basic_awareness" THEN afterPrivacy - 5
            ELSE afterPrivacy
    IN  IF afterFairness < 0 THEN 0 ELSE afterFairness

\* max(bonus_evals, key=score): the first dimension, in insertion order, with
\* the highest score
CoreDimKey(bonus_evals) ==
    LET best(i) == \A j \in 1..Len(BonusOrder) :
                       bonus_evals[BonusOrder[j]].score <= bonus_evals[BonusOrder[i]].score
        first == CHOOSE i \in 1..Len(BonusOrder) :
                     best(i) /\ \A j \in 1..(i - 1) : ~best(j)
    IN  BonusOrder[first]

\* Variant: the core dimension's score taken on its 100-point scale, unmapped.
BonusItemsScoreUnscaled(core_score) == Num(core_score)

\* bonus_items_score = (core_eval["score"] / 100.0) * 80.0
BonusItemsScore(core_score) == RMul(RDiv(Num(core_score), Num(100)), Num(80))

\* SocialValueScorer.analyze: the report for a fetched repository.  The
\* `weights` parameter is accepted and never read.
SocialReportOf(text, license, weights) ==
    LET ethics_eval   == EvaluateEthicsRedline(text)
        privacy_eval  == EvaluatePrivacyProtection(text, license)
        fairness_eval == EvaluateAlgorithmFairness(text)
        basic_score   == BasicScore(ethics_eval, privacy_eval, fairness_eval)
        bonus_evals   ==
            [ d \in { BonusOrder[i] : i \in 1..Len(BonusOrder) } |->
                CASE d = "social_impact"              -> EvaluateSocialImpact(text)
                  [] d = "environmental_friendliness" -> EvaluateEnvironmentalFriendliness(text)
                  [] d = "charity_orientation"        -> EvaluateCharityOrientation(text)
                  [] d = "long_term_vision"           -> EvaluateLongTermVision(text) ]
        core_dim_key  == CoreDimKey(bonus_evals)
        bonus_items_score == BonusItemsScore(bonus_evals[core_dim_key].score)
        scoreOf(d) ==
            CASE d = "ethics_redline"     -> ethics_eval.score
              [] d = "privacy_protection" -> privacy_eval.score
              [] d = "algorithm_fairness" -> fairness_eval.score
              [] OTHER                    -> bonus_evals[d].score
        basic(d) == d \in { "ethics_redline", "privacy_protection", "algorithm_fairness" }
        dims ==
            [ i \in 1..Len(SocialDimensionOrder) |->
                LET d == SocialDimensionOrder[i]
                IN  [ name |-> d,
                      score |-> scoreOf(d),
                      weight |-> IF basic(d) THEN 100
                                 ELSE IF core_dim_key = d THEN 80 ELSE 0,
                      weighted_score |->
                          IF d = "ethics_redline"
                          THEN (IF core_dim_key = "ethics_redline"
                                THEN Num(basic_score) ELSE Num(0))
                          ELSE IF basic(d) THEN Num(0)
                          ELSE IF core_dim_key = d THEN bonus_items_score ELSE Num(0),
                      category |-> IF basic(d) THEN "basic" ELSE "bonus" ] ]
        total_score == RAdd(Num(basic_score), bonus_items_score)
    IN  [ total_score |-> total_score,
          level |-> SocialGetLevel(total_score),
          basic_items_score |-> Num(basic_score),
          bonus_items_score |-> bonus_items_score,
          core_dimension |-> core_dim_key,
          risk_level |-> ethics_eval.risk_level,
          dimensions |-> dims ]

\* The weights arguments tried: None, or the seven-key dict the app builds
\* from its sliders.
SocialWeightArgs ==
    { None,
      [ d \in SOCIAL_DIMENSION_NAMES |-> IF d = "ethics_redline" THEN SliderMax ELSE 0 ],
      [ d \in SOCIAL_DIMENSION_NAMES |-> IF d = "long_term_vision" THEN 0 ELSE 1 ] }

SocialInit ==
    /\ sText \in Texts
    /\ sLicense \in BOOLEAN
    /\ sWeightsArg \in SocialWeightArgs
    /\ sReport = None
    /\ iWeightsArg = None /\ iScores = None /\ iReport = None
    /\ aResult = None
    /\ pMain = PipelineIdle /\ pFut = <<>> /\ pCollected = {} /\ pContainer = <<>>
    /\ pLog = {} /\ pRet = None /\ pExc = FALSE
    /\ hCall = HttpIdle
    /\ nCall = None /\ fFetch = None /\ uCall = None /\ mCall = None

\* report = scorer.analyze(url, weights=weights) of the social-value tool
SocialAnalyze ==
    /\ sReport = None
    /\ sReport' = SocialReportOf(sText, sLicense, sWeightsArg)
    /\ UNCHANGED <<sText, sLicense, sWeightsArg, innovVars, analyzerVars, pipelineVars, httpVars, appVars>>

SocialNext == SocialAnalyze

SocialSpec == SocialInit /\ [][SocialNext]_vars

(***************************************************************************)
(* Claims about SocialValueScorer.analyze                                  *)
(***************************************************************************)
\* sum over the seven dimensions of score * normalised weight / 100
WeightedTotal(report, weights) ==
    RSumSeq([ i \in 1..Len(report.dimensions) |->
                RDiv(RMul(Num(report.dimensions[i].score),
                          SocialNormalizeWeights(weights)[report.dimensions[i].name]),
                     Num(100)) ])

\* C7: the seven weights passed to analyze are normalised to sum to 100 and
\* total_score is the sum over the seven dimensions of score times
\* normalised weight / 100.
C7_TotalIsWeightedSum ==
    (sReport # None /\ sWeightsArg # None /\ SumValues(sWeightsArg) # 0) =>
        sReport.total_score = WeightedTotal(sReport, sWeightsArg)

\* C8: in every report basic_items_score lies in [0,30] and
\* bonus_items_score in [0,70].
C8_BasicWithin30BonusWithin70 ==
    sReport # None =>
        /\ RLe(Num(0), sReport.basic_items_score)
        /\ RLe(sReport.basic_items_score, Num(30))
        /\ RLe(Num(0), sReport.bonus_items_score)
        /\ RLe(sReport.bonus_items_score, Num(70))

\* C9: in every report total_score = basic_items_score + bonus_items_score
\* and 0 <= total_score <= 100.
C9_TotalIsBasicPlusBonusWithin100 ==
    sReport # None =>
        /\ sReport.total_score = RAdd(sReport.basic_items_score, sReport.bonus_items_score)
        /\ RLe(Num(0), sReport.total_score)
        /\ RLe(sReport.total_score, Num(100))

\* C9 witness: a report at the top of the range, full basic items and a core
\* dimension scoring 100.
C9_Witness ==
    /\ sReport # None
    /\ sReport.basic_items_score = Num(20)
    /\ sReport.bonus_items_score = Num(80)
    /\ sReport.total_score = Num(100)

(***************************************************************************)
(* The heuristic analyzers behind the dimension scores                     *)
(***************************************************************************)
\* min(100, max(0, score)) on a float
RClamp(score) == RMin(Num(100), RMax(Num(0), score))

\* Largest number of packages of one technology category in a repository.
MaxPkgs == 3

\* TechStackAnalyzer._calculate_score up to its final min/max: the weighted
\* average with the cutting-edge bonus and the basic-only penalty.  categorized
\* gives the number of packages in each category.
TechStackAdjusted(categorized, total_packages) ==
    LET total_score == categorized.cutting_edge * 100 + categorized.modern * 75
                       + categorized.standard * 50 + categorized.basic * 30
                       + categorized.unknown * 40
        score == Rat(total_score, total_packages)
        bonus == IF categorized.cutting_edge >= 3
                 THEN RMin(Num(100), RAdd(score, Num(10)))
                 ELSE IF categorized.cutting_edge >= 2
                      THEN RMin(Num(100), RAdd(score, Num(5)))
                      ELSE score
    IN  IF categorized.cutting_edge = 0 /\ categorized.modern = 0
        THEN RMax(Num(0), RAdd(bonus, Num(-10)))
        ELSE bonus

\* TechStackAnalyzer._calculate_score
TechStackScore(categorized, total_packages) ==
    IF total_packages = 0 THEN Num(50)
    ELSE RClamp(TechStackAdjusted(categorized, total_packages))

\* EngineeringAnalyzer._calculate_score before the final clamp
EngineeringRaw(has_ci_cd, has_docker, has_tests, test_count, tool_count, deployment_type) ==
    20 + (IF has_ci_cd THEN 25 ELSE 0)
       + (IF has_docker THEN 20 ELSE 0)
       + (IF has_tests
          THEN 10 + (IF test_count >= 5 THEN 10 ELSE IF test_count >= 2 THEN 5 ELSE 0)
          ELSE 0)
       + (IF tool_count * 3 < 15 THEN tool_count * 3 ELSE 15)
       + (IF deployment_type \in { "Kubernetes", "Serverless", "Terraform", "Helm" } THEN 10
          ELSE IF deployment_type \notin { "Unknown", "" } THEN 5 ELSE 0)

\* EngineeringAnalyzer.analyze: the flags and counts derived from the detected
\* tool lists, then _calculate_score.
EngineeringScore(t) ==
    RClamp(Num(EngineeringRaw(t.ci_cd_tools > 0, t.docker_tools > 0, t.test_count > 0,
                              t.test_count,
                              t.ci_cd_tools + t.docker_tools + t.deployment_tools
                                  + t.quality_tools,
                              t.deployment_type)))

\* ArchitectureAnalyzer._calculate_modularity_score (a whole number of points)
ModularityScore(s) ==
    IF s.python_files = 0 THEN 50
    ELSE LET dir_count == IF s.all_dirs > 1 THEN s.all_dirs ELSE 1
             \* 1 <= file_count / dir_count <= 5
             ratio_ok == dir_count <= s.python_files /\ s.python_files <= 5 * dir_count
             score == 50 + (IF s.has_init THEN 15 ELSE 0)
                         + (IF 2 <= s.max_depth /\ s.max_depth <= 4 THEN 10
                            ELSE IF s.max_depth > 4 THEN 5 ELSE 0)
                         + (IF 3 <= s.all_dirs /\ s.all_dirs <= 10 THEN 10
                            ELSE IF s.all_dirs > 10 THEN 5 ELSE 0)
                         + (IF ratio_ok THEN 10 ELSE 0)
         IN  Clamp(score)

\* ArchitectureAnalyzer._analyze_dependency_complexity: its "score"
DependencyComplexityScore(s) ==
    IF s.is_monorepo THEN 15
    ELSE IF s.env_configs >= 2 THEN 10
    ELSE IF s.has_requirements THEN 5
    ELSE 0

\* ArchitectureAnalyzer._assess_coupling: its "score"
CouplingScore(s) ==
    LET separation ==
            IF s.all_dirs > 0 /\ s.all_files > 0
            THEN (IF s.all_files <= 3 * s.all_dirs THEN 3
                  ELSE IF s.all_files <= 5 * s.all_dirs THEN 2 ELSE 1)
            ELSE 0
        layering ==
            IF 2 <= s.max_depth /\ s.max_depth <= 4 THEN 3
            ELSE IF s.max_depth = 1 \/ s.max_depth = 5 THEN 2 ELSE 1
        concerns ==
            IF s.separation_dirs >= 3 THEN 3 ELSE IF s.separation_dirs >= 1 THEN 2 ELSE 1
        total == separation + layering + concerns
    IN  IF total >= 8 THEN 15 ELSE IF total >= 6 THEN 10 ELSE 5

\* ADVANCED_PATTERNS: score_bonus of each pattern
PatternBonus ==
    [ p \in { "microservices", "clean_architecture", "hexagonal", "plugin_system",
              "multi_agent", "mvc_pattern", "pipeline", "event_driven", "monorepo" } |->
        CASE p = "microservices"      -> 12
          [] p = "clean_architecture" -> 15
          [] p = "hexagonal"          -> 15
          [] p = "plugin_system"      -> 10
          [] p = "multi_agent"        -> 12
          [] p = "mvc_pattern"        -> 8
          [] p = "pipeline"           -> 10
          [] p = "event_driven"       -> 12
          [] p = "monorepo"           -> 8 ]

\* sum(p["score_bonus"] for p in advanced_patterns)
RECURSIVE SumBonus(_)
SumBonus(patterns) ==
    IF patterns = {} THEN 0
    ELSE LET p == CHOOSE x \in patterns : TRUE
         IN  PatternBonus[p] + SumBonus(patterns \ {p})

\* ArchitectureAnalyzer.analyze: sum(scoring_breakdown.values()) before the clamp.
\* The modularity entry is min(25, (modularity_score - 50) / 2), the only entry
\* that can be a half; the others are whole points.
ArchitectureRaw(s) ==
    LET modularity2 == IF ModularityScore(s) - 50 < 2 * 25
                       THEN ModularityScore(s) - 50 ELSE 2 * 25
        pattern_bonus == SumBonus(s.patterns)
        whole == 30 + (IF pattern_bonus < 20 THEN pattern_bonus ELSE 20)
                    + DependencyComplexityScore(s) + CouplingScore(s)
                    + (IF s.is_template THEN -15 ELSE 0)
    IN  Rat(2 * whole + modularity2, 2)

ArchitectureScore(s) == RClamp(ArchitectureRaw(s))

\* CodeAnalyzer._calculate_score: sum(breakdown.values()) before the clamp
CodeRaw(c) ==
    LET total_defs == c.functions + c.async_functions + c.classes
        size == IF total_defs >= 10 THEN 10 ELSE IF total_defs >= 5 THEN 7
                ELSE IF total_defs >= 2 THEN 5 ELSE 2
        cplx == IF RLe(Num(3), c.complexity) /\ RLe(c.complexity, Num(6)) THEN 15
                ELSE IF RLt(Num(6), c.complexity) THEN 10
                ELSE IF RLt(Num(1), c.complexity) THEN 8 ELSE 3
        custom == IF c.custom_impl >= 15 THEN 15 ELSE IF c.custom_impl >= 10 THEN 12
                  ELSE IF c.custom_impl >= 5 THEN 8 ELSE IF c.custom_impl >= 2 THEN 5 ELSE 2
        algo == (IF c.data_structure THEN 5 ELSE 0) + 3 * c.algo_patterns
        design == IF c.design_patterns > 0
                  THEN (IF c.design_patterns * 2 < 5 THEN c.design_patterns * 2 ELSE 5)
                  ELSE 0
    IN  30 + size + cplx + custom + (IF algo < 20 THEN algo ELSE 20)
           + (IF c.async_functions > 0 THEN 5 ELSE 0) + design

\* CodeAnalyzer: 30.0 without code files, else the clamped total
CodeScore(c) == IF c.no_code THEN Num(30) ELSE RClamp(Num(CodeRaw(c)))

\* round(x, 1) of a non-negative float (halves rounded up)
Round1(x) == Rat((2 * 10 * x[1] + x[2]) \div (2 * x[2]), 10)

\* SolutionAnalyzer._calculate_problem_clarity: total_score / max_score
ProblemClarity(r) ==
    LET sections == IF r.sections * 5 < 20 THEN r.sections * 5 ELSE 20
        total == (IF r.problem THEN 20 ELSE 0) + (IF r.scenario THEN 15 ELSE 0)
                 + (IF r.user THEN 15 ELSE 0) + (IF r.background THEN 15 ELSE 0)
                 + sections + r.length_score
    IN  Rat(total, 20 + 15 + 15 + 15 + 20 + 15)

\* SolutionAnalyzer._calculate_solution_uniqueness: total_score / max_score
SolutionUniqueness(r) ==
    LET keyword == IF r.innovation_keywords * 8 < 25 THEN r.innovation_keywords * 8 ELSE 25
        domains == IF r.domains >= 3 THEN 20 ELSE IF r.domains >= 2 THEN 15
                   ELSE IF r.domains = 1 THEN 5 ELSE 0
        tech == IF r.tech_found >= 3 THEN 20 ELSE IF r.tech_found >= 1 THEN 10 ELSE 0
        total == keyword + domains + tech + (IF r.comparison THEN 20 ELSE 0)
                 + (IF r.quantitative THEN 15 ELSE 0)
    IN  Rat(total, 25 + 20 + 20 + 20 + 15)

\* SolutionAnalyzer.analyze: sum(scoring_breakdown.values()) before the clamp
SolutionRaw(r) ==
    RSumSeq(<< Round1(RMul(ProblemClarity(r), Num(40))),
               Round1(RMul(SolutionUniqueness(r), Num(40))),
               Num(IF r.cross_domain THEN 15 ELSE 0),
               Num(IF r.innovation_keywords * 2 < 5 THEN r.innovation_keywords * 2 ELSE 5) >>)

\* SolutionAnalyzer.analyze: 30.0 for an empty text, else the clamped sum
SolutionScore(r) == IF r.empty THEN Num(30) ELSE RClamp(SolutionRaw(r))

SCENARIO_KEYWORDS ==
    [ healthcare |->
        { "zh_yiliao", "zh_jiankang", "zh_huanzhe", "zh_zhenduan", "zh_aercihaimo",
          "alzheimer", "medical", "health", "patient" },
      education |->
        { "zh_jiaoyu", "zh_xuexi", "zh_jiaoxue", "zh_xuesheng", "zh_peixun",
          "education", "learning", "student", "teacher" },
      elderly_care |->
        { "zh_laonian", "zh_yanglao", "zh_peiban", "elderly", "senior", "aging", "care" },
      accessibility |->
        { "zh_wuzhangai", "zh_canzhang", "zh_fuzhu", "accessibility", "disability",
          "assistive" },
      mental_health |->
        { "zh_xinli", "zh_qingxu", "zh_xinling", "mental", "emotion", "therapy",
          "counseling" },
      environment |->
        { "zh_huanbao", "zh_kechixu", "zh_lvse", "environment", "sustainable", "green",
          "climate" },
      social_good |->
        { "zh_gongyi", "zh_cishan", "zh_shehui", "social", "charity", "nonprofit",
          "community" },
      creative |->
        { "zh_chuangzuo", "zh_yishu", "zh_yinyue", "creative", "art", "music", "design" },
      productivity |->
        { "zh_xiaolv", "zh_zidonghua", "zh_gongzuoliu", "productivity", "automation",
          "workflow" },
      developer_tools |->
        { "zh_kaifazhe", "zh_gongju", "SDK", "API", "developer", "tools", "framework" } ]

\* Words of the texts given to the scenario and market-fit evaluators.
ScenarioVocabulary ==
    { "alzheimer", "elderly", "disabled", "children", "healthcare", "music", "API" }

\* _evaluate_scenario_innovation before min(100, score)
ScenarioRaw(text, cross_domain, problem_clarity) ==
    LET detected_scenarios == DetectKeywords(text, SCENARIO_KEYWORDS)
        high_value == { "healthcare", "elderly_care", "accessibility", "mental_health",
                        "social_good" }
    IN  40 + (IF detected_scenarios # {}
              THEN (IF detected_scenarios \cap high_value # {} THEN 25 ELSE 15)
              ELSE 0)
           + (IF Contains(text, "alzheimer") \/ Contains(text, "zh_aercihaimo") THEN 10 ELSE 0)
           + (IF Contains(text, "elderly") \/ Contains(text, "zh_laonian") THEN 5 ELSE 0)
           + (IF Contains(text, "disabled") \/ Contains(text, "zh_canzhang")
                 \/ Contains(text, "zh_wuzhangai") THEN 10 ELSE 0)
           + (IF Contains(text, "child") \/ Contains(text, "zh_ertong") THEN 5 ELSE 0)
           + (IF cross_domain /\ Cardinality(detected_scenarios) >= 2 THEN 10 ELSE 0)
           + (IF RLt(Rat(7, 10), problem_clarity) THEN 5 ELSE 0)

\* _evaluate_scenario_innovation: its "score"
ScenarioScore(text, cross_domain, problem_clarity) ==
    LET raw == ScenarioRaw(text, cross_domain, problem_clarity)
    IN  IF raw < 100 THEN raw ELSE 100

\* 'mit' in license_name.lower(), 'apache' in license_name.lower()
LicenseHas(license_name, word) ==
    CASE license_name = "MIT License"        -> word = "mit"
      [] license_name = "Apache License 2.0" -> word = "apache"
      [] OTHER                               -> FALSE

\* _evaluate_market_fit before min(100, score)
MarketFitRaw(f) ==
    40 + (IF f.cutting_edge_packages > 0 THEN 20
          ELSE IF f.modern_packages > 0 THEN 10 ELSE 0)
       + (IF f.stars > 1000 THEN 15 ELSE IF f.stars > 100 THEN 8 ELSE 0)
       + (IF AnyIn(f.text, { "api", "sdk", "plugin", "extension", "integration", "webhook" })
          THEN 10 ELSE 0)
       + (IF (f.license_name # "" /\ LicenseHas(f.license_name, "mit"))
             \/ LicenseHas(f.license_name, "apache") THEN 5 ELSE 0)

\* _evaluate_market_fit: its "score"
MarketFitScore(f) == IF MarketFitRaw(f) < 100 THEN MarketFitRaw(f) ELSE 100

(***************************************************************************)
(* One analyzer call: the inputs are the features the analyzer extracts    *)
(* from the repository, the result is the score it returns.                *)
(***************************************************************************)
PackageCategories == { "cutting_edge", "modern", "standard", "basic", "unknown" }

\* Largest number of architecture patterns detected in one repository.
MaxPatterns == 2

\* python_files and whether one of them is an __init__ file
PythonFileSets == { <<0, FALSE>>, <<3, FALSE>>, <<3, TRUE>>, <<20, TRUE>> }

\* What _analyze_dependency_complexity finds: <<is_monorepo, env_configs,
\* has_requirements or has_package_json>>
DependencyFiles ==
    { <<TRUE, 0, FALSE>>, <<FALSE, 2, FALSE>>, <<FALSE, 0, TRUE>>, <<FALSE, 0, FALSE>> }

\* structure of _parse_directory_tree with what the detectors find in it
Structure(py, dirs, files, depth, sep, dep, template, patterns) ==
    [ python_files |-> py[1], has_init |-> py[2], all_dirs |-> dirs, all_files |-> files,
      max_depth |-> depth, separation_dirs |-> sep, is_monorepo |-> dep[1],
      env_configs |-> dep[2], has_requirements |-> dep[3], is_template |-> template,
      patterns |-> patterns ]

\* The findings fit the numbers of directories and files of the tree.
StructureOk(s) ==
    /\ s.separation_dirs <= s.all_dirs
    /\ s.is_monorepo => s.all_dirs >= 1
    /\ s.env_configs <= s.all_files
    /\ s.has_requirements => s.all_files >= 1
    /\ s.patterns # {} => s.all_dirs >= 1
    /\ s.is_template => s.all_files + s.all_dirs >= 2

PatternSets == { P \in SUBSET DOMAIN PatternBonus : Cardinality(P) <= MaxPatterns }

CodeFeatures ==
    [ no_code : {FALSE}, functions : {0, 2, 10}, async_functions : {0, 1},
      classes : {0, 3}, complexity : { Num(1), Num(2), Num(3), Rat(13, 2) },
      custom_impl : {0, 2, 5, 10, 15}, data_structure : BOOLEAN,
      algo_patterns : 0..6, design_patterns : 0..5 ]

\* code_files is empty
NoCode ==
    [ no_code |-> TRUE, functions |-> 0, async_functions |-> 0, classes |-> 0,
      complexity |-> Num(0), custom_impl |-> 0, data_structure |-> FALSE,
      algo_patterns |-> 0, design_patterns |-> 0 ]

\* The README with nothing in it (full_text.strip() is empty)
EmptyReadme ==
    [ empty |-> TRUE, problem |-> FALSE, scenario |-> FALSE, user |-> FALSE,
      background |-> FALSE, sections |-> 0, length_score |-> 0,
      innovation_keywords |-> 0, domains |-> 0, cross_domain |-> FALSE,
      tech_found |-> 0, comparison |-> FALSE, quantitative |-> FALSE ]

ReadmeFeatures ==
    [ empty : {FALSE}, problem : BOOLEAN, scenario : BOOLEAN, user : BOOLEAN,
      background : BOOLEAN, sections : {0, 2, 5}, length_score : {0, 5, 10, 15},
      innovation_keywords : {0, 1, 3, 4}, domains : 0..3, cross_domain : BOOLEAN,
      tech_found : {0, 1, 3}, comparison : BOOLEAN, quantitative : BOOLEAN ]

\* _is_cross_domain: three domains always are, fewer than two never
ReadmeOk(r) ==
    /\ r.domains >= 3 => r.cross_domain
    /\ r.cross_domain => r.domains >= 2

EngineeringFeatures ==
    [ ci_cd_tools : 0..2, docker_tools : 0..2, deployment_tools : 0..1,
      quality_tools : 0..2, test_count : {0, 1, 2, 5},
      deployment_type : { "Kubernetes", "Heroku", "Unknown" } ]

MarketFeatures ==
    [ cutting_edge_packages : 0..1, modern_packages : 0..1, stars : {0, 101, 1001},
      text : SUBSET ScenarioVocabulary,
      license_name : { "", "MIT License", "Apache License 2.0", "GPL-3.0" } ]

\* The result of one call: the analyzer, its sum before the final clamp and
\* the score it returns.
Result(analyzer, raw, score) == [ analyzer |-> analyzer, raw |-> raw, score |-> score ]

AnalyzerInit ==
    /\ aResult = None
    /\ iWeightsArg = None /\ iScores = None /\ iReport = None
    /\ sText = {} /\ sLicense = FALSE /\ sWeightsArg = None /\ sReport = None
    /\ pMain = PipelineIdle /\ pFut = <<>> /\ pCollected = {} /\ pContainer = <<>>
    /\ pLog = {} /\ pRet = None /\ pExc = FALSE
    /\ hCall = HttpIdle
    /\ nCall = None /\ fFetch = None /\ uCall = None /\ mCall = None

TechStackAnalyze ==
    /\ aResult = None
    /\ \E categorized \in [PackageCategories -> 0..MaxPkgs] :
         LET total_packages == categorized.cutting_edge + categorized.modern
                               + categorized.standard + categorized.basic
                               + categorized.unknown
         IN  aResult' = Result("tech_stack",
                               IF total_packages = 0 THEN Num(50)
                               ELSE TechStackAdjusted(categorized, total_packages),
                               TechStackScore(categorized, total_packages))
    /\ UNCHANGED <<innovVars, socialVars, pipelineVars, httpVars, appVars>>

ArchitectureAnalyze ==
    /\ aResult = None
    /\ \E py \in PythonFileSets, dirs \in {0, 3, 11}, files \in {0, 12, 20},
          depth \in {0, 3, 5}, sep \in {0, 1, 3}, dep \in DependencyFiles,
          template \in BOOLEAN, patterns \in PatternSets :
         LET s == Structure(py, dirs, files, depth, sep, dep, template, patterns)
         IN  /\ StructureOk(s)
             /\ aResult' = Result("architecture", ArchitectureRaw(s), ArchitectureScore(s))
    /\ UNCHANGED <<innovVars, socialVars, pipelineVars, httpVars, appVars>>

CodeAnalyze ==
    /\ aResult = None
    /\ \/ aResult' = Result("code", Num(30), CodeScore(NoCode))
       \/ \E c \in CodeFeatures :
            /\ c.data_structure => c.classes > 0
            /\ aResult' = Result("code", Num(CodeRaw(c)), CodeScore(c))
    /\ UNCHANGED <<innovVars, socialVars, pipelineVars, httpVars, appVars>>

EngineeringAnalyze ==
    /\ aResult = None
    /\ \E t \in EngineeringFeatures :
         /\ t.deployment_tools > 0 => t.deployment_type # "Unknown"
         /\ aResult' = Result("engineering",
                              Num(EngineeringRaw(t.ci_cd_tools > 0, t.docker_tools > 0,
                                                 t.test_count > 0, t.test_count,
                                                 t.ci_cd_tools + t.docker_tools
                                                     + t.deployment_tools + t.quality_tools,
                                                 t.deployment_type)),
                              EngineeringScore(t))
    /\ UNCHANGED <<innovVars, socialVars, pipelineVars, httpVars, appVars>>

SolutionAnalyze ==
    /\ aResult = None
    /\ \/ aResult' = Result("solution", Num(30), SolutionScore(EmptyReadme))
       \/ \E r \in ReadmeFeatures :
            /\ ReadmeOk(r)
            /\ aResult' = Result("solution", SolutionRaw(r), SolutionScore(r))
    /\ UNCHANGED <<innovVars, socialVars, pipelineVars, httpVars, appVars>>

EvaluateScenarioInnovation ==
    /\ aResult = None
    /\ \E text \in SUBSET ScenarioVocabulary, cross_domain \in BOOLEAN,
          problem_clarity \in { Rat(7, 10), Rat(3, 4) } :
         aResult' = Result("scenario_innovation",
                           Num(ScenarioRaw(text, cross_domain, problem_clarity)),
                           Num(ScenarioScore(text, cross_domain, problem_clarity)))
    /\ UNCHANGED <<innovVars, socialVars, pipelineVars, httpVars, appVars>>

EvaluateMarketFit ==
    /\ aResult = None
    /\ \E f \in MarketFeatures :
         aResult' = Result("market_fit", Num(MarketFitRaw(f)), Num(MarketFitScore(f)))
    /\ UNCHANGED <<innovVars, socialVars, pipelineVars, httpVars, appVars>>

\* One of the seven social-value dimension evaluators on a repository text.
EvaluateSocialDimension ==
    /\ aResult = None
    /\ \E text \in Texts :
         \/ aResult' = Result("ethics_redline", Num(EthicsRaw(text)),
                              Num(EvaluateEthicsRedline(text).score))
         \/ \E license \in BOOLEAN :
              aResult' = Result("privacy_protection", Num(PrivacyRaw(text, license)),
                                Num(EvaluatePrivacyProtection(text, license).score))
         \/ aResult' = Result("algorithm_fairness", Num(FairnessRaw(text)),
                              Num(EvaluateAlgorithmFairness(text).score))
         \/ aResult' = Result("social_impact", Num(SocialImpactRaw(text)),
                              Num(EvaluateSocialImpact(text).score))
         \/ aResult' = Result("environmental_friendliness", Num(EnvironmentalRaw(text)),
                              Num(EvaluateEnvironmentalFriendliness(text).score))
         \/ aResult' = Result("charity_orientation", Num(CharityRaw(text)),
                              Num(EvaluateCharityOrientation(text).score))
         \/ aResult' = Result("long_term_vision", Num(VisionRaw(text)),
                              Num(EvaluateLongTermVision(text).score))
    /\ UNCHANGED <<innovVars, socialVars, pipelineVars, httpVars, appVars>>

AnalyzerNext ==
    \/ TechStackAnalyze
    \/ ArchitectureAnalyze
    \/ CodeAnalyze
    \/ EngineeringAnalyze
    \/ SolutionAnalyze
    \/ EvaluateScenarioInnovation
    \/ EvaluateMarketFit
    \/ EvaluateSocialDimension

AnalyzerSpec == AnalyzerInit /\ [][AnalyzerNext]_vars

\* C1: every scoring analyzer returns a score within [0,100]: the tech-stack,
\* architecture, code, engineering and solution analyzers, the
\* scenario-innovation and market-fit evaluators and the seven social-value
\* dimension evaluators.
C1_AnalyzerScoresWithin0And100 ==
    aResult # None =>
        /\ RLe(Num(0), aResult.score)
        /\ RLe(aResult.score, Num(100))

\* C1 witness: the ethics evaluator deducts more than its 80 base points and
\* returns 0.
C1_Witness ==
    /\ aResult # None
    /\ aResult.analyzer = "ethics_redline"
    /\ RLt(aResult.raw, Num(0))
    /\ aResult.score = Num(0)

(***************************************************************************)
(* BusinessResearcher.analyze_bp_pipeline and its three thread pools       *)
(* (image analyses, keyword searches, the four JSON-generation sub-tasks). *)
(***************************************************************************)
\* Largest number of stitched images, and of search keywords, in one run.
MaxImages == 2
MaxKeywords == 2

MainThread == <<"main", 0>>
WorkerThread(pool, w) == <<pool, w>>

\* The result container of each pool.
ContainerOf(pool) ==
    CASE pool = "vision"   -> "results"
      [] pool = "search"   -> "search_results"
      [] pool = "generate" -> "result"

Containers == { "results", "search_results", "result" }

\* required_keys
REQUIRED_KEYS ==
    { "project_identity", "industry_analysis", "business_analysis", "competitors",
      "raw_evidence", "vc_grill", "valuation_model", "funding_ecosystem",
      "pain_point_validation", "public_sentiment", "risk_assessment" }

\* The keys each generation sub-task is prompted to produce:
\* 1 basic info, 2 external intel, 3 valuation, 4 risks and Q&A.
TaskKeys(task) ==
    CASE task = 1 -> { "project_identity", "industry_analysis", "business_analysis" }
      [] task = 2 -> { "competitors", "funding_ecosystem", "public_sentiment", "raw_evidence" }
      [] task = 3 -> { "valuation_model" }
      [] task = 4 -> { "vc_grill", "pain_point_validation", "risk_assessment" }

\* What a _generate_* worker returns: json.loads of the model's answer (a dict
\* with all, some or none of its keys, or a JSON value that is no dict), or {}
\* after an exception.
TaskOutcomes(task) ==
    { [ dict |-> TRUE,  keys |-> TaskKeys(task) ],
      [ dict |-> TRUE,  keys |-> TaskKeys(task) \ { CHOOSE k \in TaskKeys(task) : TRUE } ],
      [ dict |-> TRUE,  keys |-> {} ],
      [ dict |-> FALSE, keys |-> {} ] }

\* A variable is a name in the frame of the thread that owns it.
Var(frame, name) == [ frame |-> frame, name |-> name ]

WorkerWritesContainer(pool, w) == { Var(MainThread, ContainerOf(pool)) }

\* The variables a worker function writes: search_worker,
\* _analyze_single_image and _generate_* bind their own locals only and hand
\* their value back with return.
WorkerWrites(pool, w) == { Var(WorkerThread(pool, w), "locals") }

\* The variables of the submitting thread a worker function reads.
WorkerReads(pool, w) ==
    CASE pool = "vision"   -> { Var(MainThread, "stitched_images") }
      [] pool = "search"   -> { Var(MainThread, "keywords") }
      [] pool = "generate" -> { Var(MainThread, "fusion_context") }

\* Entries of the access log: which thread did what ("bind" a name, "mutate"
\* an object, "read") to which variable, and for a container mutation whether
\* the future whose result is stored had completed.
Access(thread, var, op, done) == [ thread |-> thread, var |-> var, op |-> op, done |-> done ]

WorkerLog(pool, w) ==
    { Access(WorkerThread(pool, w), v, "mutate", FALSE) : v \in WorkerWrites(pool, w) }
    \cup { Access(WorkerThread(pool, w), v, "read", FALSE) : v \in WorkerReads(pool, w) }

\* The error dict of the except branch
PipelineFailure == [ k \in { "error", "details", "template" } |-> "failure" ]

NoDefaults(result, required) == result

\* The key check and default filling at the end of the pipeline: every
\* required key absent from result gets its default.
FillDefaults(result, required) ==
    [ k \in DOMAIN result \cup required |->
        IF k \in DOMAIN result THEN result[k] ELSE "default" ]

\* result.update(value) for a dict value
Update(result, keys) ==
    [ k \in DOMAIN result \cup keys |-> IF k \in keys THEN "generated" ELSE result[k] ]

PipelineInit ==
    /\ pMain = [ pc |-> "extract", images |-> 0, keywords |-> 0, pool |-> "none", step |-> 0 ]
    /\ pFut = <<>>
    /\ pCollected = {}
    /\ pContainer = <<>>
    /\ pLog = {}
    /\ pRet = None
    /\ pExc = FALSE
    /\ hCall = HttpIdle
    /\ nCall = None /\ fFetch = None /\ uCall = None /\ mCall = None
    /\ aResult = None
    /\ iWeightsArg = None /\ iScores = None /\ iReport = None
    /\ sText = {} /\ sLicense = FALSE /\ sWeightsArg = None /\ sReport = None

\* pdf_content = utils.extract_content_from_pdf(pdf_path); a text holding the
\* failure marker returns the error dict at once.
ExtractPdf ==
    /\ pMain.pc = "extract"
    /\ \/ /\ pRet' = [ k \in { "error" } |-> "PDF unreadable" ]
          /\ pMain' = [ pMain EXCEPT !.pc = "done" ]
       \/ \E n \in 0..MaxImages :
            /\ pMain' = [ pMain EXCEPT !.pc = IF n > 0 THEN "vision" ELSE "perceive",
                                       !.images = n ]
            /\ pRet' = pRet
    /\ UNCHANGED <<pFut, pCollected, pContainer, pLog, pExc>>
    /\ UNCHANGED <<innovVars, socialVars, analyzerVars, httpVars, appVars>>

\* A pool is opened: the container is created empty by the submitting thread
\* and one future per task is submitted.
Submit(pool, n) ==
    /\ pFut' = [ w \in 1..n |-> [ state |-> "pending", value |-> None ] ]
    /\ pCollected' = {}
    /\ pContainer' = <<>>
    /\ pLog' = pLog \cup { Access(MainThread, Var(MainThread, ContainerOf(pool)), "bind", FALSE) }
                    \cup { Access(MainThread, v, "bind", FALSE) : v \in WorkerReads(pool, 1) }
    /\ pMain' = [ pMain EXCEPT !.pc = "collect", !.pool = pool, !.step = 0 ]

\* describe_visual_elements: stitch the images (which may raise) and submit
\* one _analyze_single_image per stitched image.
SubmitVision ==
    /\ pMain.pc = "vision"
    /\ \/ /\ Submit("vision", pMain.images)
          /\ pExc' = pExc
       \/ /\ pExc' = TRUE
          /\ pMain' = [ pMain EXCEPT !.pc = "except" ]
          /\ UNCHANGED <<pFut, pCollected, pContainer, pLog>>
    /\ UNCHANGED <<pRet, innovVars, socialVars, analyzerVars, httpVars, appVars>>

\* _perceive_context: one LLM call, the fallback context when it fails; both
\* give the industry and a list of keywords.
PerceiveContext ==
    /\ pMain.pc = "perceive"
    /\ \E n \in 1..MaxKeywords :
         pMain' = [ pMain EXCEPT !.pc = "search", !.keywords = n ]
    /\ UNCHANGED <<pFut, pCollected, pContainer, pLog, pRet, pExc>>
    /\ UNCHANGED <<innovVars, socialVars, analyzerVars, httpVars, appVars>>

\* _concurrent_search: search_results = {} and one search_worker per keyword
SubmitSearch ==
    /\ pMain.pc = "search"
    /\ Submit("search", pMain.keywords)
    /\ UNCHANGED <<pRet, pExc, innovVars, socialVars, analyzerVars, httpVars, appVars>>

\* result = {} and the four _generate_* sub-tasks are submitted
SubmitGenerate ==
    /\ pMain.pc = "generate"
    /\ Submit("generate", 4)
    /\ UNCHANGED <<pRet, pExc, innovVars, socialVars, analyzerVars, httpVars, appVars>>

\* A pool thread runs one task to its end: the worker function returns its
\* value through the future (every exception is caught inside it).
WorkerRun ==
    /\ pMain.pc = "collect"
    /\ \E w \in DOMAIN pFut :
         /\ pFut[w].state = "pending"
         /\ \E value \in (CASE pMain.pool = "vision"   -> { "description", "none" }
                            [] pMain.pool = "search"   -> { "hits", "empty", "error text" }
                            [] pMain.pool = "generate" -> TaskOutcomes(w)) :
              pFut' = [ pFut EXCEPT ![w] = [ state |-> "done", value |-> value ] ]
         /\ pLog' = pLog \cup WorkerLog(pMain.pool, w)
    /\ UNCHANGED <<pMain, pCollected, pContainer, pRet, pExc>>
    /\ UNCHANGED <<innovVars, socialVars, analyzerVars, httpVars, appVars>>

\* for future in as_completed(futures): the submitting thread takes a
\* completed future and stores its result when it is truthy.
CollectCompleted ==
    /\ pMain.pc = "collect"
    /\ pMain.pool \in { "vision", "search" }
    /\ \E w \in DOMAIN pFut \ pCollected :
         /\ pFut[w].state = "done"
         /\ pCollected' = pCollected \cup {w}
         /\ IF pFut[w].value \in { "description", "hits", "error text" }
            THEN /\ pContainer' = [ k \in DOMAIN pContainer \cup {w} |-> pFut[w].value ]
                 /\ pLog' = pLog \cup { Access(MainThread, Var(MainThread, ContainerOf(pMain.pool)),
                                               "mutate", pFut[w].state = "done") }
            ELSE UNCHANGED <<pContainer, pLog>>
    /\ UNCHANGED <<pMain, pFut, pRet, pExc>>
    /\ UNCHANGED <<innovVars, socialVars, analyzerVars, httpVars, appVars>>

\* The with block ends after every future was taken: the container is read
\* into the text handed to the next stage.
PoolReturn ==
    /\ pMain.pc = "collect"
    /\ pMain.pool \in { "vision", "search" }
    /\ pCollected = DOMAIN pFut
    /\ pMain' = [ pMain EXCEPT !.pc = IF pMain.pool = "vision" THEN "perceive" ELSE "generate",
                               !.pool = "none" ]
    /\ pFut' = <<>>
    /\ pCollected' = {}
    /\ pContainer' = <<>>
    /\ UNCHANGED <<pLog, pRet, pExc, innovVars, socialVars, analyzerVars, httpVars, appVars>>

\* basic_info = future_basic.result() ... risks_qa_data = future_risks.result():
\* the submitting thread waits for the four futures in submission order.
WaitResult ==
    /\ pMain.pc = "collect"
    /\ pMain.pool = "generate"
    /\ pMain.step < 4
    /\ pFut[pMain.step + 1].state = "done"
    /\ pCollected' = pCollected \cup { pMain.step + 1 }
    /\ pMain' = [ pMain EXCEPT !.step = IF pMain.step + 1 = 4 THEN 0 ELSE pMain.step + 1,
                               !.pc = IF pMain.step + 1 = 4 THEN "update" ELSE "collect" ]
    /\ UNCHANGED <<pFut, pContainer, pLog, pRet, pExc>>
    /\ UNCHANGED <<innovVars, socialVars, analyzerVars, httpVars, appVars>>

\* result.update(basic_info) ... result.update(risks_qa_data): a value that is
\* no dict raises.
UpdateResult ==
    /\ pMain.pc = "update"
    /\ LET task == pMain.step + 1
       IN  IF pFut[task].value.dict
           THEN /\ pContainer' = Update(pContainer, pFut[task].value.keys)
                /\ pLog' = pLog \cup { Access(MainThread, Var(MainThread, "result"), "mutate",
                                              pFut[task].state = "done") }
                /\ pMain' = [ pMain EXCEPT !.step = IF task = 4 THEN 0 ELSE task,
                                           !.pc = IF task = 4 THEN "validate" ELSE "update" ]
                /\ pExc' = pExc
           ELSE /\ pExc' = TRUE
                /\ pMain' = [ pMain EXCEPT !.pc = "except" ]
                /\ UNCHANGED <<pContainer, pLog>>
    /\ UNCHANGED <<pFut, pCollected, pRet>>
    /\ UNCHANGED <<innovVars, socialVars, analyzerVars, httpVars, appVars>>

\* The completeness check: defaults for the missing keys, then return result.
ValidateAndReturn ==
    /\ pMain.pc = "validate"
    /\ pRet' = FillDefaults(pContainer, REQUIRED_KEYS)
    /\ pMain' = [ pMain EXCEPT !.pc = "done" ]
    /\ UNCHANGED <<pFut, pCollected, pContainer, pLog, pExc>>
    /\ UNCHANGED <<innovVars, socialVars, analyzerVars, httpVars, appVars>>

\* except Exception as e: the exception is logged and the error dict returned.
ExceptHandler ==
    /\ pMain.pc = "except"
    /\ pRet' = PipelineFailure
    /\ pExc' = FALSE
    /\ pMain' = [ pMain EXCEPT !.pc = "done" ]
    /\ UNCHANGED <<pFut, pCollected, pContainer, pLog>>
    /\ UNCHANGED <<innovVars, socialVars, analyzerVars, httpVars, appVars>>

PipelineNext ==
    \/ ExtractPdf
    \/ SubmitVision
    \/ PerceiveContext
    \/ SubmitSearch
    \/ SubmitGenerate
    \/ WorkerRun
    \/ CollectCompleted
    \/ PoolReturn
    \/ WaitResult
    \/ UpdateResult
    \/ ValidateAndReturn
    \/ ExceptHandler

PipelineSpec == PipelineInit /\ [][PipelineNext]_vars

\* C3: analyze_bp_pipeline never propagates an exception (one that was raised
\* is on its way to the except clause, never past it) and returns either an
\* error dict, with the key 'error', or a report with all eleven required
\* top-level keys, whatever the four generation sub-tasks returned; a key no
\* sub-task delivered holds its default.
C3_ErrorDictOrCompleteReport ==
    /\ pExc => pMain.pc = "except"
    /\ pMain.pc = "done" => pRet # None
    /\ pRet # None =>
         \/ "error" \in DOMAIN pRet
         \/ \A k \in { "project_identity", "industry_analysis", "business_analysis",
                       "competitors", "raw_evidence", "vc_grill", "valuation_model",
                       "funding_ecosystem", "pain_point_validation", "public_sentiment",
                       "risk_assessment" } :
               /\ k \in DOMAIN pRet
               /\ k \notin DOMAIN pContainer => pRet[k] = "default"

\* C3 witness: the valuation sub-task returned {} while the basic-info
\* sub-task delivered its keys, and the report is returned with the default
\* valuation_model.
C3_Witness ==
    /\ pMain.pc = "done"
    /\ pMain.pool = "generate"
    /\ "error" \notin DOMAIN pRet
    /\ pFut[3].value.keys = {}
    /\ pRet["valuation_model"] = "default"
    /\ pRet["project_identity"] = "generated"


\* C5: the worker tasks of the three pools share no mutable state: a variable
\* written by a worker is touched by no other thread, and each result
\* container (search_results, results, result) is mutated only by the
\* submitting thread and only with the result of a completed future.
C5_WorkersShareNoMutableState ==
    /\ \A a \in pLog :
         (a.var.name \in Containers /\ a.op = "mutate")
             => (a.thread = MainThread /\ a.done)
    /\ \A a \in pLog : \A b \in pLog :
         (a.thread # MainThread /\ a.op \in { "bind", "mutate" } /\ b.var = a.var)
             => b.thread = a.thread

\* C5 witness: the four generation workers have run, each writing its locals,
\* and the submitting thread has stored results in search_results and result.
C5_Witness ==
    /\ \A w \in 1..4 :
         Access(WorkerThread("generate", w), Var(WorkerThread("generate", w), "locals"),
                "mutate", FALSE) \in pLog
    /\ Access(MainThread, Var(MainThread, "search_results"), "mutate", TRUE) \in pLog
    /\ Access(MainThread, Var(MainThread, "result"), "mutate", TRUE) \in pLog

(***************************************************************************)
(* The external request wrappers: GitHubFetcher._api_get, google_search    *)
(* and the LLM call of a generation sub-task.                              *)
(***************************************************************************)
\* Largest `retries` argument of _api_get tried (its default is 3).
MaxRetries == 3

\* What one session.get of _api_get can come to: a status code, a timeout,
\* or another exception (a connection error, or a 200 body that is no JSON).
ApiResponses == { "200", "404", "403", "500", "timeout", "exception" }

\* Variant: a 404 is retried like any other failure.
RetryAfterNotFound(response, attempt, retries) ==
    \/ response = "200"
    \/ attempt + 1 = retries

\* Whether the loop of _api_get returns after the response of `attempt`
\* (attempts count from 0 as in range(retries)).
ApiGetReturns(response, attempt, retries) ==
    \/ response \in { "200", "404" }
    \/ response = "exception" /\ ~(attempt < retries - 1)
    \/ attempt + 1 = retries

NoSleep(response, attempt, retries) == 0

\* Seconds slept after the response of `attempt`: time.sleep(2 ** attempt) on
\* a 403, time.sleep(1) after an exception that is not the last attempt.
ApiGetSleep(response, attempt, retries) ==
    CASE response = "403" -> 2 ^ attempt
      [] response = "exception" /\ attempt < retries - 1 -> 1
      [] OTHER -> 0

HttpInit ==
    /\ hCall = HttpIdle
    /\ nCall = None /\ fFetch = None /\ uCall = None /\ mCall = None
    /\ pMain = PipelineIdle /\ pFut = <<>> /\ pCollected = {} /\ pContainer = <<>>
    /\ pLog = {} /\ pRet = None /\ pExc = FALSE
    /\ aResult = None
    /\ iWeightsArg = None /\ iScores = None /\ iReport = None
    /\ sText = {} /\ sLicense = FALSE /\ sWeightsArg = None /\ sReport = None

\* self._api_get(endpoint) is entered
CallApiGet ==
    /\ hCall.pc = "idle"
    /\ \E retries \in 1..MaxRetries :
         hCall' = [ hCall EXCEPT !.pc = "running", !.function = "_api_get",
                                 !.retries = retries ]
    /\ UNCHANGED <<innovVars, socialVars, analyzerVars, pipelineVars, appVars>>

\* One iteration of for attempt in range(retries): the request, then return,
\* or sleep and go on with the next attempt.
ApiGetAttempt ==
    /\ hCall.pc = "running"
    /\ \E response \in ApiResponses :
         LET attempt == Len(hCall.responses)
         IN  hCall' = [ hCall EXCEPT
                 !.responses = Append(@, response),
                 !.sleeps = Append(@, ApiGetSleep(response, attempt, hCall.retries)),
                 !.pc = IF ApiGetReturns(response, attempt, hCall.retries)
                        THEN "returned" ELSE "running",
                 !.ret = IF ApiGetReturns(response, attempt, hCall.retries)
                         THEN (IF response = "200" THEN "json" ELSE "None")
                         ELSE @ ]
    /\ UNCHANGED <<innovVars, socialVars, analyzerVars, pipelineVars, appVars>>

\* utils.google_search(query): one requests.post; the organic results as a
\* text, "" when there are none, an error text after an exception.
GoogleSearch ==
    /\ hCall.pc = "idle"
    /\ \E response \in { "results", "no results", "RequestException", "Exception" } :
         hCall' = [ hCall EXCEPT
             !.pc = "returned", !.function = "google_search", !.retries = 1,
             !.responses = <<response>>, !.sleeps = <<0>>,
             !.ret = CASE response = "results" -> "results text"
                       [] response = "no results" -> ""
                       [] OTHER -> "error text" ]
    /\ UNCHANGED <<innovVars, socialVars, analyzerVars, pipelineVars, appVars>>

\* _generate_basic_info (and its three siblings): one chat completion; the
\* parsed JSON, {} after any exception.
GenerateCall ==
    /\ hCall.pc = "idle"
    /\ \E response \in { "json", "not json", "exception" } :
         hCall' = [ hCall EXCEPT
             !.pc = "returned", !.function = "_generate_basic_info", !.retries = 1,
             !.responses = <<response>>, !.sleeps = <<0>>,
             !.ret = IF response = "json" THEN "json" ELSE "{}" ]
    /\ UNCHANGED <<innovVars, socialVars, analyzerVars, pipelineVars, appVars>>

HttpNext ==
    \/ CallApiGet
    \/ ApiGetAttempt
    \/ GoogleSearch
    \/ GenerateCall

HttpSpec == HttpInit /\ [][HttpNext]_vars

\* C4 as stated: there is no retry and no backoff: no external call issues
\* more than one request per invocation and none sleeps.
C4_NoRetryNoBackoff ==
    /\ Len(hCall.responses) <= 1
    /\ \A i \in 1..Len(hCall.sleeps) : hCall.sleeps[i] = 0

\* C4 amended: google_search and the LLM call of a generation sub-task issue
\* one request, never sleep and return their fallback on failure; _api_get
\* issues at most `retries` requests, none after a 200 or a 404, sleeps
\* 2**attempt seconds after a 403 and 1 second after an exception that is not
\* the last attempt, and returns None unless the last response was a 200.
C4_OnlyApiGetRetriesWithBackoff ==
    LET n == Len(hCall.responses)
    IN  /\ hCall.function # "_api_get" =>
             /\ n <= 1
             /\ \A i \in 1..Len(hCall.sleeps) : hCall.sleeps[i] = 0
             /\ (hCall.pc = "returned" /\ hCall.responses[1] \in { "RequestException", "Exception" })
                    => hCall.ret = "error text"
             /\ (hCall.pc = "returned" /\ hCall.responses[1] \in { "not json", "exception" })
                    => hCall.ret = "{}"
        /\ hCall.function = "_api_get" =>
             /\ n <= hCall.retries
             /\ Len(hCall.sleeps) = n
             /\ \A i \in 1..n :
                  /\ i < n => hCall.responses[i] \notin { "200", "404" }
                  /\ hCall.responses[i] = "403" => hCall.sleeps[i] = 2 ^ (i - 1)
                  /\ (hCall.responses[i] = "exception" /\ i < hCall.retries)
                        => hCall.sleeps[i] = 1
                  /\ (hCall.responses[i] \in { "200", "404", "500", "timeout" }
                        \/ (hCall.responses[i] = "exception" /\ i = hCall.retries))
                        => hCall.sleeps[i] = 0
             /\ hCall.pc = "returned" =>
                  /\ n >= 1
                  /\ hCall.ret = IF hCall.responses[n] = "200" THEN "json" ELSE "None"
                  /\ (n < hCall.retries) => hCall.responses[n] \in { "200", "404" }

\* C4 witness: _api_get called with retries = 3 got a 403, an exception and
\* another 403, slept 1, 1 and 4 seconds and returned None after the third
\* request.
C4_Witness ==
    /\ hCall.function = "_api_get"
    /\ hCall.pc = "returned"
    /\ hCall.responses = << "403", "exception", "403" >>
    /\ hCall.sleeps = << 1, 1, 4 >>
    /\ hCall.ret = "None"

(***************************************************************************)
(* _normalize_weights of both scorers, with the rounding of Python's float *)
(* division.  A float in [0, 128) is held exactly as a fixed-point number  *)
(* with 56 binary places, written as three limbs <<h, m, l>> of 21 bits:   *)
(* its value is (h * 2^42 + m * 2^21 + l) / 2^56.                          *)
(***************************************************************************)
FloorDiv(n, t) == << (n \div t) * 16384, 0, 0 >>

\* n / t for integers 0 <= n and 0 < t with a quotient that is 0 or lies in
\* [1/8, 128): the IEEE-754 double nearest to the quotient (53 significant
\* bits, ties to even).
FloatDiv(n, t) ==
    LET B  == 2097152
        h0 == (n * 16384) \div t
        r0 == (n * 16384) % t
        m0 == (r0 * B) \div t
        r1 == (r0 * B) % t
        l0 == (r1 * B) \div t
        sticky == (r1 * B) % t # 0
        \* the bits below the 53rd significant one are the last d bits of l0
        d  == CHOOSE k \in 1..10 : 2 ^ (k + 10) <= h0 /\ h0 < 2 ^ (k + 11)
        u  == 2 ^ d
        low == l0 % u
        up == \/ 2 * low > u
              \/ 2 * low = u /\ (sticky \/ (l0 \div u) % 2 = 1)
        l1 == l0 - low + (IF up THEN u ELSE 0)
        m1 == m0 + (IF l1 = B THEN 1 ELSE 0)
    IN  IF n = 0 THEN << 0, 0, 0 >>
        ELSE << h0 + (IF m1 = B THEN 1 ELSE 0), m1 % B, l1 % B >>

\* _normalize_weights(weights) of the scorer of `app`
NormalizeWeights64(app, weights) ==
    LET defaults == IF app = "innovation" THEN DEFAULT_WEIGHTS ELSE SOCIAL_DEFAULT_WEIGHTS
        total == SumValues(weights)
    IN  IF total = 0
        THEN [ k \in DOMAIN defaults |-> << defaults[k] * 16384, 0, 0 >> ]
        ELSE [ k \in DOMAIN weights |-> FloatDiv(weights[k] * 100, total) ]

\* The weights supplied are what the sliders of the app deliver: an integer
\* of 0..SliderMax for each dimension of the scorer.
NormalizeInit ==
    /\ nCall \in { [ app |-> "innovation", weights |-> w, ret |-> None ] :
                     w \in [ DIMENSION_NAMES -> { 0, 1, 3, SliderMax } ] }
            \cup { [ app |-> "social", weights |-> w, ret |-> None ] :
                     w \in [ SOCIAL_DIMENSION_NAMES -> { 0, 1, 3 } ] }
    /\ fFetch = None /\ uCall = None /\ mCall = None
    /\ hCall = HttpIdle
    /\ pMain = PipelineIdle /\ pFut = <<>> /\ pCollected = {} /\ pContainer = <<>>
    /\ pLog = {} /\ pRet = None /\ pExc = FALSE
    /\ aResult = None
    /\ iWeightsArg = None /\ iScores = None /\ iReport = None
    /\ sText = {} /\ sLicense = FALSE /\ sWeightsArg = None /\ sReport = None

\* scorer._normalize_weights(weights)
NormalizeCall ==
    /\ nCall.ret = None
    /\ nCall' = [ nCall EXCEPT !.ret = NormalizeWeights64(nCall.app, nCall.weights) ]
    /\ UNCHANGED <<innovVars, socialVars, analyzerVars, pipelineVars, httpVars,
                   fFetch, uCall, mCall>>

NormalizeSpec == NormalizeInit /\ [][NormalizeCall]_vars

\* The exact sum of fixed-point numbers, limb by limb.
FixSum(xs) ==
    LET B == 2097152
        RECURSIVE Col(_, _)
        Col(S, i) == IF S = {} THEN 0
                     ELSE LET k == CHOOSE k \in S : TRUE
                          IN  xs[k][i] + Col(S \ {k}, i)
        l == Col(DOMAIN xs, 3)
        m == Col(DOMAIN xs, 2) + l \div B
    IN  << Col(DOMAIN xs, 1) + m \div B, m % B, l % B >>

\* The exact product of a fixed-point number and an integer of 0..100.
FixTimes(x, k) ==
    LET B == 2097152
        l == x[3] * k
        m == x[2] * k + l \div B
    IN  << x[1] * k + m \div B, m % B, l % B >>

\* |a - b| <= tol / 2^56, for tol below 2^21
FixNear(a, b, tol) ==
    LET B == 2097152
        e == (a[1] - b[1]) * B + (a[2] - b[2])
    IN  /\ a[1] - b[1] \in { -1, 0, 1 }
        /\ e \in { -1, 0, 1 }
        /\ e * B + (a[3] - b[3]) <= tol
        /\ e * B + (a[3] - b[3]) >= -tol

\* C11 as stated: the weights returned for supplied weights with a non-zero
\* sum add up to exactly 100 and have exactly the pairwise ratios of the
\* supplied ones (ret[a] * w[b] = ret[b] * w[a]); for a zero sum the default
\* weights are returned.
C11_SumExactly100SameRatios ==
    (nCall # None /\ nCall.ret # None) =>
        LET w == nCall.weights
            ret == nCall.ret
            defaults == IF nCall.app = "innovation" THEN DEFAULT_WEIGHTS
                        ELSE SOCIAL_DEFAULT_WEIGHTS
        IN  IF SumValues(w) = 0
            THEN ret = [ k \in DOMAIN defaults |-> << defaults[k] * 16384, 0, 0 >> ]
            ELSE /\ FixSum(ret) = << 100 * 16384, 0, 0 >>
                 /\ \A a \in DOMAIN w : \A b \in DOMAIN w :
                      FixTimes(ret[a], w[b]) = FixTimes(ret[b], w[a])

\* C11 amended: the weights returned for supplied weights with a non-zero sum
\* add up to 100 within 2^-46 and have the pairwise ratios of the supplied
\* ones within 2^-39 (|ret[a] * w[b] - ret[b] * w[a]| <= 2^-39), the error
\* being that of rounding each quotient to a float; for a zero sum the
\* default weights are returned.
C11_SumNear100RatiosNear ==
    (nCall # None /\ nCall.ret # None) =>
        LET w == nCall.weights
            ret == nCall.ret
            defaults == IF nCall.app = "innovation" THEN DEFAULT_WEIGHTS
                        ELSE SOCIAL_DEFAULT_WEIGHTS
        IN  IF SumValues(w) = 0
            THEN ret = [ k \in DOMAIN defaults |-> << defaults[k] * 16384, 0, 0 >> ]
            ELSE /\ DOMAIN ret = DOMAIN w
                 /\ FixNear(FixSum(ret), << 100 * 16384, 0, 0 >>, 1024)
                 /\ \A a \in DOMAIN w : \A b \in DOMAIN w :
                      FixNear(FixTimes(ret[a], w[b]), FixTimes(ret[b], w[a]), 131072)

\* C11 witness: three equal weights are normalised to three times
\* 33.333333333333336, whose sum is above 100 by 2^-47.
C11_Witness ==
    /\ nCall # None
    /\ nCall.ret # None
    /\ nCall.app = "innovation"
    /\ SumValues(nCall.weights) = 3
    /\ nCall.ret["tech_implementation"] = << 546133, 699050, 1398272 >>
    /\ FixSum(nCall.ret) = << 1638400, 0, 512 >>

(***************************************************************************)
(* GitHubFetcher.fetch: the sequence of _api_get calls of one fetch and    *)
(* the cache.  Each call ends as _api_get ends: with the JSON body of a    *)
(* 200 response, with None after a 404, or with None after its attempts    *)
(* were used up on 403s, other statuses, timeouts or exceptions.           *)
(***************************************************************************)
\* code_files_found holds at most 5 paths; the first 3 are fetched.
CodeFilesCap == 5
CoreFilesFetched == 3

\* The call that follows the call at `pc` which ended with `outcome`;
\* `content` tells whether _get_file_content returned a non-empty text.  The
\* last four are the requests of _fetch_deep_github_data.
NextCall(f, outcome, content) ==
    LET afterDeps == IF f.files > 0 THEN "code file" ELSE "issues" IN
    CASE f.pc = "repo" -> IF outcome = "json" THEN "tree" ELSE "raised"
      [] f.pc = "tree" -> "README.md"
      [] f.pc = "README.md" ->
            IF f.language = "javascript" THEN "package.json" ELSE "requirements.txt"
      [] f.pc = "package.json" -> afterDeps
      [] f.pc = "requirements.txt" -> IF content THEN afterDeps ELSE "pyproject.toml"
      [] f.pc = "pyproject.toml" -> afterDeps
      [] f.pc = "code file" ->
            IF f.fetched + 1 < f.files /\ f.fetched + 1 < CoreFilesFetched
            THEN "code file" ELSE "issues"
      [] f.pc = "issues" -> "contributors"
      [] f.pc = "contributors" -> "commits"
      [] f.pc = "commits" -> "releases"
      [] f.pc = "releases" -> "cache.set"

\* fetcher.fetch(url, use_cache) is called with the cache empty or holding
\* an earlier RepoInfo of the repository.
FetchInit ==
    /\ fFetch \in [ pc : { "start" }, use_cache : BOOLEAN, cache : { "empty", "earlier" },
                    language : { "unknown" }, files : { 0 }, fetched : { 0 },
                    calls : { 0 }, abandoned : { FALSE }, ret : { "pending" } ]
    /\ nCall = None /\ uCall = None /\ mCall = None
    /\ hCall = HttpIdle
    /\ pMain = PipelineIdle /\ pFut = <<>> /\ pCollected = {} /\ pContainer = <<>>
    /\ pLog = {} /\ pRet = None /\ pExc = FALSE
    /\ aResult = None
    /\ iWeightsArg = None /\ iScores = None /\ iReport = None
    /\ sText = {} /\ sLicense = FALSE /\ sWeightsArg = None /\ sReport = None

\* The cache check: a cached RepoInfo is returned without any request.
FetchStart ==
    /\ fFetch.pc = "start"
    /\ fFetch' = IF fFetch.use_cache /\ fFetch.cache # "empty"
                 THEN [ fFetch EXCEPT !.pc = "returned", !.ret = "cached RepoInfo" ]
                 ELSE [ fFetch EXCEPT !.pc = "repo" ]
    /\ UNCHANGED <<innovVars, socialVars, analyzerVars, pipelineVars, httpVars,
                   nCall, uCall, mCall>>

\* One self._api_get(...) of fetch, _get_file_content or
\* _fetch_deep_github_data, and what fetch does with its result: raise
\* ValueError without repository data, take language and code files from the
\* answers, go on to the next call.
FetchApiGet ==
    /\ fFetch.pc \notin { "start", "cache.set", "returned", "raised" }
    /\ \E outcome \in { "json", "not found", "abandoned" }, content \in BOOLEAN,
          language \in { "python", "javascript" }, files \in 0..CodeFilesCap :
         /\ content => outcome = "json"
         /\ (fFetch.pc = "repo" /\ outcome = "json") \/ language = fFetch.language
         /\ (fFetch.pc = "tree" /\ outcome = "json") \/ files = fFetch.files
         /\ fFetch' = [ fFetch EXCEPT
                !.calls = @ + 1,
                !.abandoned = @ \/ outcome = "abandoned",
                !.language = language,
                !.files = files,
                !.fetched = IF fFetch.pc = "code file" THEN @ + 1 ELSE @,
                !.pc = NextCall(fFetch, outcome, content),
                !.ret = IF NextCall(fFetch, outcome, content) = "raised"
                        THEN "ValueError" ELSE @ ]
    /\ UNCHANGED <<innovVars, socialVars, analyzerVars, pipelineVars, httpVars,
                   nCall, uCall, mCall>>

\* self.cache.set(cache_key, info, expire=CACHE_TTL); return info
FetchCacheSet ==
    /\ fFetch.pc = "cache.set"
    /\ fFetch' = [ fFetch EXCEPT !.pc = "returned", !.ret = "RepoInfo",
                                 !.cache = IF fFetch.abandoned THEN "partial RepoInfo"
                                           ELSE "RepoInfo" ]
    /\ UNCHANGED <<innovVars, socialVars, analyzerVars, pipelineVars, httpVars,
                   nCall, uCall, mCall>>

FetchNext ==
    \/ FetchStart
    \/ FetchApiGet
    \/ FetchCacheSet

FetchSpec == FetchInit /\ [][FetchNext]_vars

\* C12: one fetch issues at most 8 GitHub API calls: repository info, git
\* tree, README, one dependency file and at most 3 core code files.
C12_AtMost8ApiCalls ==
    fFetch # None => fFetch.calls <= 8

\* C19: fetch writes a RepoInfo to the cache only when every request of the
\* fetch got a definitive answer (200 or 404): after ValueError the cache is
\* as it was, and a fetch with an abandoned request stores nothing.
C19_CacheOnlyCompleteRepoInfo ==
    fFetch # None =>
        /\ fFetch.ret = "ValueError" => fFetch.cache \in { "empty", "earlier" }
        /\ fFetch.abandoned => fFetch.cache \in { "empty", "earlier" }

(***************************************************************************)
(* The callbacks of the two Gradio apps: reset_weights, create_app and     *)
(* analyze_repo, and InnovationScorer.generate_markdown_report called on   *)
(* its own.  A URL is a sequence of tokens (blanks, host names in either   *)
(* case, a path); the cross mark that opens an error text is written       *)
(* "error:"; a report is the sequence of its parts.                        *)
(***************************************************************************)
\* Largest number of tokens of a URL tried.
MaxUrlTokens == 2

\* The tuple DEFAULT_WEIGHTS[k1], ..., DEFAULT_WEIGHTS[kn] that reset_weights
\* returns and whose members create_app gives the sliders as values: the
\* subscript of a key that config.DEFAULT_WEIGHTS lacks raises KeyError.
ReadDefaultWeights(app) ==
    LET keys == IF app = "social" THEN SocialDimensionOrder ELSE DimensionOrder
        defaults == IF app = "social" THEN SOCIAL_DEFAULT_WEIGHTS ELSE DEFAULT_WEIGHTS
    IN  IF \A i \in 1..Len(keys) : keys[i] \in DOMAIN defaults
        THEN [ raised |-> "none", ret |-> [ i \in 1..Len(keys) |-> defaults[keys[i]] ] ]
        ELSE [ raised |-> "KeyError", ret |-> <<>> ]

NoUrlError(url) == ""

\* The URL validation of analyze_repo: the error text, "" for a URL that
\* passes (not blank after strip(), 'github.com' in its lower-cased text).
UrlError(url) ==
    LET RECURSIVE LStrip(_)
        LStrip(s) == IF s # <<>> /\ Head(s) = " " THEN LStrip(Tail(s)) ELSE s
        RECURSIVE RStrip(_)
        RStrip(s) == IF s # <<>> /\ s[Len(s)] = " "
                     THEN RStrip(SubSeq(s, 1, Len(s) - 1)) ELSE s
        stripped == RStrip(LStrip(url))
        lower == [ i \in 1..Len(stripped) |->
                     IF stripped[i] = "GitHub.com" THEN "github.com" ELSE stripped[i] ]
    IN  IF url = <<>> \/ stripped = <<>> THEN "error: enter a GitHub URL"
        ELSE IF \A i \in 1..Len(lower) : lower[i] # "github.com"
             THEN "error: enter a valid GitHub URL"
             ELSE ""

\* One function is called: reset_weights or create_app of either app,
\* analyze_repo with a URL and with or without supplementary links, or
\* generate_markdown_report of a scorer.
AppInit ==
    /\ uCall \in [ app : { "innovation", "social" },
                   callback : { "reset_weights", "create_app", "analyze_repo",
                                "generate_markdown_report" },
                   url : UNION { [ 1..n -> { " ", "github.com", "GitHub.com", "gitlab.com", "/o/r" } ] :
                                 n \in 0..MaxUrlTokens },
                   links : BOOLEAN, done : { FALSE }, scorer_called : { FALSE },
                   analysis : { "none" }, rendering : { "none" },
                   raised : { "none" }, ret : { <<>> } ]
    /\ uCall.callback = "analyze_repo" \/ (uCall.url = <<>> /\ ~uCall.links)
    /\ uCall.callback = "generate_markdown_report" => uCall.app = "innovation"
    /\ nCall = None /\ fFetch = None /\ mCall = None
    /\ hCall = HttpIdle
    /\ pMain = PipelineIdle /\ pFut = <<>> /\ pCollected = {} /\ pContainer = <<>>
    /\ pLog = {} /\ pRet = None /\ pExc = FALSE
    /\ aResult = None
    /\ iWeightsArg = None /\ iScores = None /\ iReport = None
    /\ sText = {} /\ sLicense = FALSE /\ sWeightsArg = None /\ sReport = None

\* reset_weights()
ResetWeights ==
    /\ uCall.callback = "reset_weights" /\ ~uCall.done
    /\ uCall' = [ uCall EXCEPT !.done = TRUE,
                               !.raised = ReadDefaultWeights(uCall.app).raised,
                               !.ret = ReadDefaultWeights(uCall.app).ret ]
    /\ UNCHANGED <<innovVars, socialVars, analyzerVars, pipelineVars, httpVars,
                   nCall, fFetch, mCall>>

\* create_app(): the sliders are built with the default weights as values,
\* then (app, custom_css) is returned.
CreateApp ==
    /\ uCall.callback = "create_app" /\ ~uCall.done
    /\ uCall' = [ uCall EXCEPT !.done = TRUE,
                               !.raised = ReadDefaultWeights(uCall.app).raised,
                               !.ret = IF ReadDefaultWeights(uCall.app).raised = "none"
                                       THEN << "app", "custom_css" >> ELSE <<>> ]
    /\ UNCHANGED <<innovVars, socialVars, analyzerVars, pipelineVars, httpVars,
                   nCall, fFetch, mCall>>

\* analyze_repo(url, ...): the validation, then inside try the scorer's
\* analyze (a report, ValueError or another exception) and the rendering of
\* the report (which may raise as well); both except clauses return an error
\* 4-tuple.
AnalyzeRepo ==
    /\ uCall.callback = "analyze_repo" /\ ~uCall.done
    /\ IF UrlError(uCall.url) # ""
       THEN uCall' = [ uCall EXCEPT !.done = TRUE,
                                    !.ret = << UrlError(uCall.url), "", "", "" >> ]
       ELSE \E analysis \in { "report", "ValueError", "Exception" },
               rendering \in { "markdown", "Exception" } :
              /\ analysis # "report" => rendering = "markdown"
              /\ uCall' = [ uCall EXCEPT
                     !.done = TRUE, !.scorer_called = TRUE,
                     !.analysis = analysis,
                     !.rendering = IF analysis = "report" THEN rendering ELSE "none",
                     !.ret = CASE analysis = "ValueError" ->
                                     << "error: URL parse error", "", "", "" >>
                               [] analysis = "Exception" \/ rendering = "Exception" ->
                                     << "error: analysis failed", "", "", "" >>
                               [] OTHER ->
                                     << "score", "level", "summary",
                                        IF uCall.links THEN "report with links"
                                        ELSE "report" >> ]
    /\ UNCHANGED <<innovVars, socialVars, analyzerVars, pipelineVars, httpVars,
                   nCall, fFetch, mCall>>

TemplateWithoutQuality(use_llm, use_deepseek, optimizer, llm, suggestions) ==
    << "template report" >>

\* generate_markdown_report(report, use_llm) of a scorer built with
\* use_deepseek whose ReportOptimizer() succeeded (optimizer) or not; llm is
\* what the optimiser path comes to, suggestions whether the quality
\* evaluation has suggestions to list.
MarkdownReport(use_llm, use_deepseek, optimizer, llm, suggestions) ==
    LET should_use_llm == IF use_llm # "None" THEN use_llm = "True" ELSE use_deepseek
        report_optimizer == use_deepseek /\ optimizer
        quality_report == << "# quality evaluation result", "## overall", "## metrics" >>
                          \o (IF suggestions THEN << "## suggestions" >> ELSE << >>)
    IN  IF should_use_llm /\ report_optimizer /\ llm = "optimized text"
        THEN << "optimized report", "footer" >> \o quality_report
        ELSE << "template report" >> \o quality_report

\* scorer.generate_markdown_report(report, use_llm): inside the try the
\* preparation of the prompt may raise, optimize_report returns a text, an
\* empty text or None or raises, and the quality evaluation of the optimised
\* text may raise.
GenerateMarkdownReport ==
    /\ uCall.callback = "generate_markdown_report" /\ ~uCall.done
    /\ \E use_llm \in { "None", "True", "False" }, use_deepseek \in BOOLEAN,
          optimizer \in BOOLEAN, suggestions \in BOOLEAN,
          llm \in { "not called", "prompt exception", "optimized text", "empty text",
                    "None", "optimizer exception", "quality exception" } :
         /\ (llm = "not called") <=>
                ~((IF use_llm # "None" THEN use_llm = "True" ELSE use_deepseek)
                    /\ use_deepseek /\ optimizer)
         /\ mCall' = [ use_llm |-> use_llm, use_deepseek |-> use_deepseek,
                       optimizer |-> optimizer, llm |-> llm,
                       ret |-> MarkdownReport(use_llm, use_deepseek, optimizer, llm,
                                              suggestions) ]
    /\ uCall' = [ uCall EXCEPT !.done = TRUE ]
    /\ UNCHANGED <<innovVars, socialVars, analyzerVars, pipelineVars, httpVars,
                   nCall, fFetch>>

AppNext ==
    \/ ResetWeights
    \/ CreateApp
    \/ AnalyzeRepo
    \/ GenerateMarkdownReport

AppSpec == AppInit /\ [][AppNext]_vars

\* C13: create_app() and reset_weights() of the social-value app complete
\* without raising, every DEFAULT_WEIGHTS key they read being defined in the
\* social-value config, and reset_weights returns the seven default weights.
C13_SocialAppReadsDefinedWeights ==
    (uCall # None /\ uCall.app = "social" /\ uCall.done
        /\ uCall.callback \in { "reset_weights", "create_app" }) =>
            /\ uCall.raised = "none"
            /\ uCall.callback = "reset_weights" => Len(uCall.ret) = 7

\* C14: generate_markdown_report returns a report that holds the
\* quality-evaluation section whether the LLM optimiser is disabled, succeeds,
\* returns nothing or raises, and the template report is used whenever the
\* LLM path is disabled, returns nothing or raises.
C14_ReportHasQualitySection ==
    mCall # None =>
        /\ \E i \in 1..Len(mCall.ret) : mCall.ret[i] = "# quality evaluation result"
        /\ mCall.llm # "optimized text" => mCall.ret[1] = "template report"
        /\ mCall.llm = "optimized text" => mCall.ret[1] = "optimized report"

\* C14 witness: the optimiser raised and the template report with the
\* quality section was returned.
C14_Witness ==
    /\ mCall # None
    /\ mCall.llm = "optimizer exception"
    /\ mCall.ret = << "template report", "# quality evaluation result", "## overall",
                      "## metrics" >>

\* C15: analyze_repo of both apps never raises: a blank URL and a URL without
\* 'github.com' give an error 4-tuple (an error text, then three empty
\* strings) and the scorer is not invoked; ValueError and any other exception
\* raised during the analysis give an error 4-tuple as well.
C15_AnalyzeRepoReturnsErrorTuples ==
    (uCall # None /\ uCall.callback = "analyze_repo") =>
        LET errors == { << e, "", "", "" >> :
                          e \in { "error: enter a GitHub URL", "error: enter a valid GitHub URL",
                                  "error: URL parse error", "error: analysis failed" } }
        IN  /\ uCall.raised = "none"
            /\ ~uCall.done => ~uCall.scorer_called
            /\ uCall.done =>
                 /\ Len(uCall.ret) = 4
                 /\ (\A i \in 1..Len(uCall.url) :
                        uCall.url[i] \notin { "github.com", "GitHub.com" })
                       => (uCall.ret \in errors /\ ~uCall.scorer_called)
                 /\ (uCall.analysis \in { "ValueError", "Exception" }
                        \/ uCall.rendering = "Exception")
                       => uCall.ret \in errors

\* C15 witness: for a GitHub URL the scorer was invoked, its analysis raised
\* ValueError and the error 4-tuple came back.
C15_Witness ==
    /\ uCall # None
    /\ uCall.callback = "analyze_repo"
    /\ uCall.done
    /\ uCall.url = << "GitHub.com", "/o/r" >>
    /\ uCall.scorer_called
    /\ uCall.analysis = "ValueError"
    /\ uCall.ret = << "error: URL parse error", "", "", "" >>

(***************************************************************************)
(* Claims about the red line and the dimension list of the social report   *)
(***************************************************************************)
\* C16: when the ethics red-line check reports the risk level dangerous,
\* basic_items_score is 0 and total_score is below 60, so the bonus
\* dimension cannot lift the project into the good band or higher.
C16_RedLineFailsOutright ==
    (sReport # None /\ sReport.risk_level = "dangerous") =>
        /\ sReport.basic_items_score = Num(0)
        /\ RLt(sReport.total_score, Num(60))
        /\ sReport.level \notin { "S5_outstanding", "S4_significant", "S3_good" }

\* C17: _evaluate_ethics_redline reports the risk level dangerous whenever a
\* harm keyword is detected, whichever other risk categories are detected in
\* the same text.
C17_HarmAlwaysDangerous ==
    (sReport # None /\ "harm" \in DetectKeywords(sText, ETHICS_RISK_KEYWORDS)) =>
        sReport.risk_level = "dangerous"

\* C20: in every report total_score equals the sum of weighted_score over
\* the report's seven dimensions.
C20_TotalIsSumOfWeightedScores ==
    sReport # None =>
        /\ Len(sReport.dimensions) = 7
        /\ sReport.total_score =
               RSumSeq([ i \in 1..Len(sReport.dimensions) |->
                           sReport.dimensions[i].weighted_score ])

(***************************************************************************)
(* Claims about the termination of GitHubFetcher._api_get                  *)
(***************************************************************************)
\* C18: _api_get ends after at most `retries` requests: a 200 returns the
\* JSON body at once, a 404 returns None at once with no further attempt,
\* and when every attempt fails it returns None.
C18_ApiGetEndsWithinRetries ==
    hCall.function = "_api_get" =>
        LET n == Len(hCall.responses)
        IN  /\ n <= hCall.retries
            /\ hCall.pc \in { "running", "returned" }
            /\ n = hCall.retries => hCall.pc = "returned"
            /\ \A i \in 1..n :
                 /\ hCall.responses[i] = "200" =>
                        (i = n /\ hCall.pc = "returned" /\ hCall.ret = "json")
                 /\ hCall.responses[i] = "404" =>
                        (i = n /\ hCall.pc = "returned" /\ hCall.ret = "None")
            /\ (hCall.pc = "returned"
                  /\ \A i \in 1..n : hCall.responses[i] \notin { "200", "404" })
                 => (n = hCall.retries /\ hCall.ret = "None")

\* C18 witness: with retries = 3 a 500, a timeout and an exception, after
\* which the call has returned None.
C18_Witness ==
    /\ hCall.function = "_api_get"
    /\ hCall.retries = 3
    /\ hCall.responses = << "500", "timeout", "exception" >>
    /\ hCall.pc = "returned"
    /\ hCall.ret = "None"

====
